---- MODULE Spec2Model ----
(***************************************************************************)
(* Verification model of the structural rewrite passes of the compiler:    *)
(*   CombineAdjacentDelays   (passes/utils/collect_adjacent_delays.py)     *)
(*   ExpandControlFlow       (passes/control_flow/expand_control_flow.py)  *)
(*   UnrollLoops             (passes/control_flow/unroll_loops.py)         *)
(*   DynamicalDecouplingMulti(passes/scheduling/dynamical_decoupling_multi)*)
(***************************************************************************)
EXTENDS Integers, Sequences, FiniteSets, TLC

VARIABLES
    pass,               \* which pass this run executes
    pc,                 \* position inside the pass' run()
    \* ---- CombineAdjacentDelays.run
    nodes,              \* dag op nodes: id -> [q, start, dur, kind, op]
    dag_duration,       \* dag.duration
    events,             \* sorted_delay_edges
    ei,                 \* index of the next event of the sweep
    open_delays,        \* open_delays
    closed_delays,      \* closed_delays
    nops,               \* number of operation objects allocated so far
    visited,            \* nodes already produced by topological_op_nodes
    open_delay_nodes,   \* open_delay_nodes
    water_mark,         \* water_mark
    added_delay_ids,    \* added_delay_ids
    out_wires,          \* out_dag / new_dag: the operations applied on each wire, in order
    \* ---- ExpandControlFlow.run, UnrollLoops.run, DynamicalDecouplingMulti.run
    dag,                \* the dag the pass is given (rewritten in place by the first two)
    work,               \* the nodes the pass' for loop runs over
    loc,                \* local variables of run()
    global_phase        \* new_dag.global_phase

mvars == <<nodes, dag_duration, events, ei, open_delays, closed_delays, nops, visited,
           open_delay_nodes, water_mark, added_delay_ids, out_wires>>

xvars == <<dag, work, loc, global_phase>>

vars == <<pass, pc, mvars, xvars>>

----------------------------------------------------------------------------
(* Generic helpers *)

Range(s) == {s[i] : i \in DOMAIN s}

Min(a, b) == IF a <= b THEN a ELSE b

Abs(x) == IF x < 0 THEN -x ELSE x

RECURSIVE SeqSum(_)
SeqSum(s) == IF s = <<>> THEN 0 ELSE Head(s) + SeqSum(Tail(s))

RECURSIVE Flatten(_)
Flatten(ss) == IF ss = <<>> THEN <<>> ELSE Head(ss) \o Flatten(Tail(ss))

RECURSIVE SortSet(_)
SortSet(S) ==
    IF S = {} THEN <<>>
    ELSE LET m == CHOOSE x \in S : \A y \in S : x <= y
         IN <<m>> \o SortSet(S \ {m})

RECURSIVE Perms(_)
Perms(S) ==
    IF S = {} THEN {<<>>}
    ELSE UNION {{<<x>> \o p : p \in Perms(S \ {x})} : x \in S}

\* Python's sorted(): the indices of keys in ascending key order, equal keys
\* staying in their original order.
StableOrder(keys) ==
    LET n == Len(keys)
        Rank(i) == Cardinality({j \in 1..n :
                        keys[j] < keys[i] \/ (keys[j] = keys[i] /\ j < i)}) + 1
    IN [r \in 1..n |-> CHOOSE i \in 1..n : Rank(i) = r]

Sorted(s, keys) == LET o == StableOrder(keys) IN [r \in 1..Len(s) |-> s[o[r]]]

\* keep the first occurrence of every element
RECURSIVE Unique(_)
Unique(s) ==
    IF s = <<>> THEN <<>>
    ELSE LET r == Unique(SubSeq(s, 1, Len(s) - 1))
             x == s[Len(s)]
         IN IF x \in Range(r) THEN r ELSE Append(r, x)

----------------------------------------------------------------------------
(* CombineAdjacentDelays: the scheduled input circuits *)

MIN_JOINABLE_DELAY_DURATION == 200

NumQubits == 3
Qubits == 0 .. (NumQubits - 1)

\* dag.duration of the scheduled circuits
DagDuration == 600
\* the instants at which an operation may start or end inside the circuit
Cuts == {50, 60, 350, 360}
\* the most operations on one qubit
MaxOpsPerQubit == 3
\* the most operation nodes of one circuit
MaxNodes == 7

\* CouplingMap.distance on a line 0 - 1 - 2 - ...
Distance(a, b) == Abs(a - b)

\* the filter of sorted_delay_edges with >= in place of > on the duration
IsJoinableAtLeast(nd, total) ==
    /\ nd.kind = "delay"
    /\ nd.start # 0
    /\ nd.start + nd.dur < total
    /\ nd.dur >= MIN_JOINABLE_DELAY_DURATION

\* the filter of sorted_delay_edges
IsJoinable(nd, total) ==
    /\ nd.kind = "delay"
    /\ nd.start # 0
    /\ nd.start + nd.dur < total
    /\ nd.dur > MIN_JOINABLE_DELAY_DURATION

\* joinable_delay_nodes
JoinableIds(ns, total) == {i \in DOMAIN ns : IsJoinable(ns[i], total)}

\* One qubit's timeline: operations tiling [0, DagDuration) back to back, as
\* left by the scheduling and padding passes that run before this pass.
LayoutsOf(C) ==
    LET b == SortSet(C \cup {0, DagDuration})
        n == Len(b) - 1
    IN {[i \in 1..n |-> [start |-> b[i], dur |-> b[i + 1] - b[i], kind |-> k[i]]] :
            k \in [1..n -> {"delay", "gate"}]}

Layouts ==
    UNION {LayoutsOf(C) : C \in {S \in SUBSET Cuts : Cardinality(S) < MaxOpsPerQubit}}

\* the timelines of the circuits of the whole-pass runs: one operation, or
\* two operations meeting at the first or the last instant, or a joinable
\* delay between two other operations
MergeLayouts ==
    {l \in Layouts :
        \/ Len(l) = 1
        \/ Len(l) = 2 /\ ((\A c \in Cuts : l[2].start <= c) \/ (\A c \in Cuts : c <= l[2].start))
        \/ Len(l) > 2 /\ \E i \in DOMAIN l : IsJoinable(l[i], DagDuration)}

\* the op nodes of a circuit, numbered qubit by qubit; every node carries an
\* operation object of its own
RECURSIVE NodesFrom(_, _, _)
NodesFrom(circ, q, base) ==
    IF q >= NumQubits THEN <<>>
    ELSE LET lay == circ[q]
             mine == [i \in 1..Len(lay) |->
                        [q |-> q, start |-> lay[i].start, dur |-> lay[i].dur,
                         kind |-> lay[i].kind, op |-> base + i]]
         IN mine \o NodesFrom(circ, q + 1, base + Len(lay))

Circuits ==
    {c \in [Qubits -> MergeLayouts] : SeqSum([q \in 1..NumQubits |-> Len(c[q - 1])]) <= MaxNodes}

\* sorted_delay_edges for one iteration order of property_set['node_start_time']
SortedDelayEdges(ns, order) ==
    LET pre == Flatten([k \in 1..Len(order) |->
                   <<[type |-> "begin", time |-> ns[order[k]].start, node |-> order[k]],
                     [type |-> "end", time |-> ns[order[k]].start + ns[order[k]].dur,
                      node |-> order[k]]>>])
    IN Sorted(pre, [k \in 1..Len(pre) |-> pre[k].time])

\* every order in which the property set may list the delay nodes
DictOrders(ns, total) == Perms(JoinableIds(ns, total))

----------------------------------------------------------------------------
(* CombineAdjacentDelays: the sweep over the delay edges *)

\* _open_delay
\* _open_delay whose Delay(0) keeps the width it is built with
OpenDelayOneQubit(st, start_time, replacing) ==
    [st EXCEPT !.open = Append(@, [op |-> st.nops + 1, start |-> start_time,
                                   nodes |-> replacing,
                                   duration |-> 0, num_qubits |-> 1]),
               !.nops = @ + 1]

\* _open_delay: a Delay(0) as wide as the list of nodes
OpenDelay(st, start_time, replacing) ==
    [st EXCEPT !.open = Append(@, [op |-> st.nops + 1, start |-> start_time,
                                   nodes |-> replacing,
                                   duration |-> 0, num_qubits |-> Len(replacing)]),
               !.nops = @ + 1]

\* a remove that leaves the list as it is
RemoveNothing(s, d) == s

\* list.remove: drop the first element equal to the tuple (Delay(0) objects of
\* equal width compare equal, so the start time and the node list decide)
RemoveFirst(s, d) ==
    LET hits == {i \in DOMAIN s : s[i].start = d.start /\ s[i].nodes = d.nodes}
    IN IF hits = {} THEN s
       ELSE LET k == CHOOSE i \in hits : \A j \in hits : i <= j
            IN SubSeq(s, 1, k - 1) \o SubSeq(s, k + 1, Len(s))

\* _close_delay that records a delay closed at the instant it was opened
CloseDelayKeepEmpty(st, delay, end_time, closing) ==
    LET s1 == [st EXCEPT !.open = RemoveFirst(@, delay)]
        s2 == [s1 EXCEPT !.closed = Append(@, [op |-> delay.op,
                        start |-> delay.start, end |-> end_time,
                        nodes |-> delay.nodes,
                        duration |-> end_time - delay.start,
                        num_qubits |-> delay.num_qubits])]
    IN IF closing # 0 /\ Len(delay.nodes) > 1
       THEN OpenDelay(s2, end_time, SelectSeq(delay.nodes, LAMBDA n : n # closing))
       ELSE s2

\* _close_delay that re-opens the delay over all its nodes, the closing one
\* included
CloseDelayKeepClosing(st, delay, end_time, closing) ==
    LET s1 == [st EXCEPT !.open = RemoveFirst(@, delay)]
        s2 == IF delay.start # end_time
              THEN [s1 EXCEPT !.closed = Append(@, [op |-> delay.op,
                        start |-> delay.start, end |-> end_time,
                        nodes |-> delay.nodes,
                        duration |-> end_time - delay.start,
                        num_qubits |-> delay.num_qubits])]
              ELSE s1
    IN IF closing # 0 /\ Len(delay.nodes) > 1
       THEN OpenDelay(s2, end_time, delay.nodes)
       ELSE s2

\* _close_delay; closing = 0 stands for closing_op_node = None
CloseDelay(st, delay, end_time, closing) ==
    LET s1 == [st EXCEPT !.open = RemoveFirst(@, delay)]
        s2 == IF delay.start # end_time
              THEN [s1 EXCEPT !.closed = Append(@, [op |-> delay.op,
                        start |-> delay.start, end |-> end_time,
                        nodes |-> delay.nodes,
                        duration |-> end_time - delay.start,
                        num_qubits |-> delay.num_qubits])]
              ELSE s1
    IN IF closing # 0 /\ Len(delay.nodes) > 1
       THEN OpenDelay(s2, end_time, SelectSeq(delay.nodes, LAMBDA n : n # closing))
       ELSE s2

RECURSIVE CloseAll(_, _, _)
CloseAll(st, delays, t) ==
    IF delays = <<>> THEN st
    ELSE CloseAll(CloseDelay(st, Head(delays), t, 0), Tail(delays), t)

\* _combine_delays that opens the new delay over the new node alone
CombineDelaysNewOnly(st, old_delay_node, start_time, delays) ==
    OpenDelay(CloseAll(st, delays, start_time), start_time, <<old_delay_node>>)

\* _combine_delays
CombineDelays(st, old_delay_node, start_time, delays) ==
    OpenDelay(CloseAll(st, delays, start_time), start_time,
              <<old_delay_node>> \o Flatten([k \in 1..Len(delays) |-> delays[k].nodes]))

\* adjacent_open_delays that looks at the qubit of the edge node only
AdjacentOpenDelaysSameQubit(ns, open, edge_node) ==
    SelectSeq(open, LAMBDA od :
        \E k \in DOMAIN od.nodes : Distance(ns[edge_node].q, ns[od.nodes[k]].q) <= 0)

\* adjacent_open_delays of the main loop
AdjacentOpenDelays(ns, open, edge_node) ==
    SelectSeq(open, LAMBDA od :
        \E k \in DOMAIN od.nodes : Distance(ns[edge_node].q, ns[od.nodes[k]].q) <= 1)

\* a begin edge that joins only the first adjacent open delay
BeginEdgeFirstOnly(ns, st, ev) ==
    LET adj == AdjacentOpenDelays(ns, st.open, ev.node)
    IN IF Len(adj) = 0 THEN OpenDelay(st, ev.time, <<ev.node>>)
       ELSE CloseDelay(st, adj[1], ev.time, 0)

\* one iteration of the loop over sorted_delay_edges
BeginEdge(ns, st, ev) ==
    LET adj == AdjacentOpenDelays(ns, st.open, ev.node)
    IN IF Len(adj) = 0 THEN OpenDelay(st, ev.time, <<ev.node>>)
       ELSE CombineDelays(st, ev.node, ev.time, adj)

EndEdgeFails(ns, st, ev) == Len(AdjacentOpenDelays(ns, st.open, ev.node)) # 1

\* an end edge that never re-opens a delay on the remaining nodes
EndEdgeNoReopen(ns, st, ev) ==
    CloseDelay(st, AdjacentOpenDelays(ns, st.open, ev.node)[1], ev.time, 0)

EndEdge(ns, st, ev) ==
    CloseDelay(st, AdjacentOpenDelays(ns, st.open, ev.node)[1], ev.time, ev.node)

SweepState == [open |-> open_delays, closed |-> closed_delays, nops |-> nops]

SweepBegin ==
    /\ pass = "merge" /\ pc = "sweep"
    /\ ei <= Len(events) /\ events[ei].type = "begin"
    /\ LET st == BeginEdge(nodes, SweepState, events[ei])
       IN /\ open_delays' = st.open
          /\ closed_delays' = st.closed
          /\ nops' = st.nops
    /\ ei' = ei + 1
    /\ UNCHANGED <<xvars, pass, pc, nodes, dag_duration, events, visited, open_delay_nodes, water_mark,
                   added_delay_ids, out_wires>>

SweepEnd ==
    /\ pass = "merge" /\ pc = "sweep"
    /\ ei <= Len(events) /\ events[ei].type = "end"
    /\ IF EndEdgeFails(nodes, SweepState, events[ei])
       THEN /\ pc' = "raised"
            /\ UNCHANGED <<open_delays, closed_delays, nops, ei>>
       ELSE /\ LET st == EndEdge(nodes, SweepState, events[ei])
               IN /\ open_delays' = st.open
                  /\ closed_delays' = st.closed
                  /\ nops' = st.nops
            /\ ei' = ei + 1
            /\ pc' = pc
    /\ UNCHANGED <<xvars, pass, nodes, dag_duration, events, visited, open_delay_nodes, water_mark,
                   added_delay_ids, out_wires>>

----------------------------------------------------------------------------
(* CombineAdjacentDelays: rebuilding the dag *)

IntervalKey(c) == c.start * (dag_duration + 1) + c.end

\* sorted(closed_delays, key=(start, end)), as indices into closed_delays
SortedClosed(closed) ==
    StableOrder([k \in 1..Len(closed) |-> IntervalKey(closed[k])])

\* replacement_ops[node]
ReplacementOps(closed, n) ==
    SelectSeq(SortedClosed(closed), LAMBDA c : n \in Range(closed[c].nodes))

\* replacements_for_open_delays after the duplicate filter
ReplacementsForOpenDelays(closed, opened) ==
    LET all == Flatten([k \in 1..Len(opened) |-> ReplacementOps(closed, opened[k])])
    IN Unique(Sorted(all, [k \in 1..Len(all) |-> IntervalKey(closed[all[k]])]))

\* _key
Key(nd) == IF nd.kind = "delay" THEN "a" ELSE "b"
KeyRank(nd) == IF Key(nd) = "a" THEN 0 ELSE 1

\* dag.topological_op_nodes(key=_key): the nodes that may come next
Ready(ns, done) ==
    {i \in DOMAIN ns \ done :
        \A j \in DOMAIN ns : (ns[j].q = ns[i].q /\ ns[j].start < ns[i].start) => j \in done}

NextNodes(ns, done) ==
    {i \in Ready(ns, done) : \A j \in Ready(ns, done) : KeyRank(ns[i]) <= KeyRank(ns[j])}

NodeOp(nd) == [op |-> nd.op, qargs |-> <<nd.q>>, dur |-> nd.dur, kind |-> nd.kind]

JointDelay(ns, c) ==
    [op |-> c.op, qargs |-> [k \in 1..Len(c.nodes) |-> ns[c.nodes[k]].q],
     dur |-> c.duration, kind |-> "delay"]

\* out_dag.apply_operation_back
ApplyBack(wires, rec) ==
    [q \in DOMAIN wires |-> IF q \in Range(rec.qargs) THEN Append(wires[q], rec) ELSE wires[q]]

\* the loop over replacements_for_open_delays without the test of line 209
RECURSIVE EmitReplacementsAgain(_, _, _, _, _, _)
EmitReplacementsAgain(ns, closed, repl, wm, t, acc) ==
    IF repl = <<>> THEN acc
    ELSE LET c == closed[Head(repl)]
             hit == wm < c.end /\ c.end <= t
             acc1 == IF hit
                     THEN [added |-> acc.added \cup {c.op},
                           out |-> ApplyBack(acc.out, JointDelay(ns, c))]
                     ELSE acc
         IN EmitReplacementsAgain(ns, closed, Tail(repl), wm, t, acc1)

\* the loop over replacements_for_open_delays (lines 205-214)
RECURSIVE EmitReplacements(_, _, _, _, _, _)
EmitReplacements(ns, closed, repl, wm, t, acc) ==
    IF repl = <<>> THEN acc
    ELSE LET c == closed[Head(repl)]
             hit == wm < c.end /\ c.end <= t /\ c.op \notin acc.added
             acc1 == IF hit
                     THEN [added |-> acc.added \cup {c.op},
                           out |-> ApplyBack(acc.out, JointDelay(ns, c))]
                     ELSE acc
         IN EmitReplacements(ns, closed, Tail(repl), wm, t, acc1)

\* the loops that apply original nodes unless their op was applied before
RECURSIVE EmitNodes(_, _, _)
EmitNodes(ns, ids, acc) ==
    IF ids = <<>> THEN acc
    ELSE LET nd == ns[Head(ids)]
             acc1 == IF nd.op \notin acc.added
                     THEN [added |-> acc.added \cup {nd.op},
                           out |-> ApplyBack(acc.out, NodeOp(nd))]
                     ELSE acc
         IN EmitNodes(ns, Tail(ids), acc1)

SweepDone ==
    /\ pass = "merge" /\ pc = "sweep"
    /\ ei > Len(events)
    /\ pc' = "walk"
    /\ UNCHANGED <<xvars, pass, mvars>>

WalkJoinable(n) ==
    /\ pass = "merge" /\ pc = "walk"
    /\ n \in NextNodes(nodes, visited)
    /\ n \in JoinableIds(nodes, dag_duration)
    /\ visited' = visited \cup {n}
    /\ open_delay_nodes' = Append(open_delay_nodes, n)
    /\ UNCHANGED <<xvars, pass, pc, nodes, dag_duration, events, ei, open_delays, closed_delays, nops,
                   water_mark, added_delay_ids, out_wires>>

WalkOther(n) ==
    /\ pass = "merge" /\ pc = "walk"
    /\ n \in NextNodes(nodes, visited)
    /\ n \notin JoinableIds(nodes, dag_duration)
    /\ visited' = visited \cup {n}
    /\ IF open_delay_nodes = <<>>
       THEN /\ out_wires' = ApplyBack(out_wires, NodeOp(nodes[n]))
            /\ UNCHANGED <<water_mark, added_delay_ids>>
       ELSE LET repl == ReplacementsForOpenDelays(closed_delays, open_delay_nodes)
                acc0 == [added |-> added_delay_ids, out |-> out_wires]
                acc1 == IF repl # <<>>
                        THEN EmitReplacements(nodes, closed_delays, repl, water_mark,
                                              nodes[n].start, acc0)
                        ELSE EmitNodes(nodes, open_delay_nodes, acc0)
                acc2 == EmitNodes(nodes, <<n>>, acc1)
            IN /\ water_mark' = IF repl # <<>> THEN nodes[n].start ELSE water_mark
               /\ added_delay_ids' = acc2.added
               /\ out_wires' = acc2.out
    /\ UNCHANGED <<xvars, pass, pc, nodes, dag_duration, events, ei, open_delays, closed_delays, nops,
                   open_delay_nodes>>

\* "Any remaining delays", then return out_dag
WalkFinish ==
    /\ pass = "merge" /\ pc = "walk"
    /\ visited = DOMAIN nodes
    /\ LET rest == SelectSeq(open_delay_nodes, LAMBDA n :
                       ReplacementOps(closed_delays, n) = <<>> /\ nodes[n].start > 0)
           acc == EmitNodes(nodes, rest, [added |-> added_delay_ids, out |-> out_wires])
       IN /\ added_delay_ids' = acc.added
          /\ out_wires' = acc.out
    /\ pc' = "done"
    /\ UNCHANGED <<xvars, pass, nodes, dag_duration, events, ei, open_delays, closed_delays, nops, visited,
                   open_delay_nodes, water_mark>>

\* DAGCircuit(): no wire, no node
NoDag == [nodes |-> {}, edges |-> <<>>, nid |-> 1]

\* the state in which run() starts on the op nodes ns of a dag lasting total
MergeStart(ns, total) ==
    /\ pass = "merge" /\ pc = "sweep"
    /\ nodes = ns
    /\ dag_duration = total
    /\ \E o \in DictOrders(ns, total) : events = SortedDelayEdges(ns, o)
    /\ ei = 1
    /\ open_delays = <<>> /\ closed_delays = <<>>
    /\ dag = NoDag /\ work = <<>> /\ loc = <<>> /\ global_phase = 0
    /\ nops = Len(ns)
    /\ visited = {} /\ open_delay_nodes = <<>>
    /\ water_mark = 0 /\ added_delay_ids = {} /\ out_wires = [q \in Qubits |-> <<>>]

InitMerge == \E c \in Circuits : MergeStart(NodesFrom(c, 0, 0), DagDuration)

NextMerge ==
    \/ SweepBegin
    \/ SweepEnd
    \/ SweepDone
    \/ \E n \in DOMAIN nodes : WalkJoinable(n)
    \/ \E n \in DOMAIN nodes : WalkOther(n)
    \/ WalkFinish

\* the whole pass on padded scheduled circuits
SpecMerge == InitMerge /\ [][NextMerge]_vars

----------------------------------------------------------------------------
(* The sweep alone, on the delay nodes of a dag.  Line 36 drops every node  *)
(* that is no delay, so only the delay nodes are listed here.               *)

SweepDuration == 800
\* the spans a delay may take: six joinable ones that overlap partly, nest or
\* abut, a short one, one of exactly the threshold, one touching the start
\* and one touching the end of the circuit
SweepSpans == {<<100, 400>>, <<100, 500>>, <<100, 700>>, <<200, 500>>, <<200, 700>>,
               <<400, 700>>, <<100, 200>>, <<200, 400>>, <<0, 400>>, <<500, 800>>}
MaxDelays == 3

CandidateDelays ==
    {[q |-> q, start |-> sp[1], dur |-> sp[2] - sp[1]] : q \in Qubits, sp \in SweepSpans}

Overlap(a, b) ==
    a.q = b.q /\ a.start < b.start + b.dur /\ b.start < a.start + a.dur

RECURSIVE SubsetsUpTo(_, _)
SubsetsUpTo(S, k) ==
    IF k = 0 THEN {{}}
    ELSE LET prev == SubsetsUpTo(S, k - 1)
         IN prev \cup {p \cup {x} : p \in prev, x \in S}

DelaySets ==
    {D \in SubsetsUpTo(CandidateDelays, MaxDelays) :
        \A a, b \in D : a # b => ~Overlap(a, b)}

RECURSIVE DelayNodes(_, _)
DelayNodes(D, base) ==
    IF D = {} THEN <<>>
    ELSE LET d == CHOOSE x \in D : \A y \in D :
                     x.q < y.q \/ (x.q = y.q /\ x.start <= y.start)
         IN <<[q |-> d.q, start |-> d.start, dur |-> d.dur, kind |-> "delay",
               op |-> base + 1]>> \o DelayNodes(D \ {d}, base + 1)

InitSweep == \E D \in DelaySets : MergeStart(DelayNodes(D, 0), SweepDuration)

NextSweep ==
    \/ SweepBegin
    \/ SweepEnd
    \/ SweepDone

SpecSweep == InitSweep /\ [][NextSweep]_vars

----------------------------------------------------------------------------
(* The whole pass on dags of one or two delays of the spans above, every    *)
(* other stretch of every qubit taken by a gate.                            *)

\* one qubit's timeline: the delays of D on q, a gate over every gap
PaddedLayout(D, q) ==
    LET mine == {d \in D : d.q = q}
        b == SortSet({0, SweepDuration} \cup {d.start : d \in mine}
                     \cup {d.start + d.dur : d \in mine})
    IN [i \in 1..(Len(b) - 1) |->
          [start |-> b[i], dur |-> b[i + 1] - b[i],
           kind |-> IF \E d \in mine : d.start = b[i] THEN "delay" ELSE "gate"]]

PaddedCircuits ==
    {[q \in Qubits |-> PaddedLayout(D, q)] : D \in {E \in DelaySets : Cardinality(E) < MaxDelays}}

InitPadded == \E c \in PaddedCircuits : MergeStart(NodesFrom(c, 0, 0), SweepDuration)

SpecPadded == InitPadded /\ [][NextMerge]_vars

\* the same circuits with one gate object used by two nodes: the nodes ns, or
\* ns with the operation of one gate node put on a later gate node of the
\* same duration
Sharings(ns) ==
    {ns} \cup {[ns EXCEPT ![j].op = ns[i].op] :
                  <<i, j>> \in {p \in (DOMAIN ns) \X (DOMAIN ns) :
                      /\ p[1] < p[2]
                      /\ ns[p[1]].kind = "gate" /\ ns[p[2]].kind = "gate"
                      /\ ns[p[1]].dur = ns[p[2]].dur}}

InitShared ==
    \E c \in PaddedCircuits : \E ns \in Sharings(NodesFrom(c, 0, 0)) :
        MergeStart(ns, SweepDuration)

SpecShared == InitShared /\ [][NextMerge]_vars

----------------------------------------------------------------------------
(* The partial-overlap scenario: a delay on qubit 0 over [50, 350) and one  *)
(* on qubit 1 over [60, 360), no other joinable delay.                      *)

ScenarioCircuits ==
    {c \in [Qubits -> MergeLayouts] :
        /\ Len(c[0]) = 3 /\ c[0][2] = [start |-> 50, dur |-> 300, kind |-> "delay"]
        /\ Len(c[1]) = 3 /\ c[1][2] = [start |-> 60, dur |-> 300, kind |-> "delay"]
        /\ \A q \in Qubits \ {0, 1} :
               /\ Len(c[q]) < MaxOpsPerQubit
               /\ \A i \in DOMAIN c[q] : ~IsJoinable(c[q][i], DagDuration)}

InitScenario == \E c \in ScenarioCircuits : MergeStart(NodesFrom(c, 0, 0), DagDuration)

SpecScenario == InitScenario /\ [][NextMerge]_vars

----------------------------------------------------------------------------
(* The DAG substrate: a multigraph of input, output and operation nodes,    *)
(* its edges labelled with wires.  A wire is <<"q", i>>, <<"c", i>> or, for  *)
(* the one-bit registers ExpandControlFlow adds, <<"cond", k>>.              *)

WireNode(id, type, w) ==
    [id |-> id, type |-> type, name |-> type, qargs |-> <<>>, cargs |-> <<>>,
     blocks |-> <<>>, params |-> <<>>, wire |-> w]

OpNode(id, op) ==
    [id |-> id, type |-> "op", name |-> op.name, qargs |-> op.qargs, cargs |-> op.cargs,
     blocks |-> op.blocks, params |-> op.params, wire |-> <<>>]

Edge(s, t, w) == [s |-> s, t |-> t, w |-> w]

NodeById(g, id) == CHOOSE n \in g.nodes : n.id = id

InputNodeId(g, w) == (CHOOSE n \in g.nodes : n.type = "in" /\ n.wire = w).id

OutputNodeId(g, w) == (CHOOSE n \in g.nodes : n.type = "out" /\ n.wire = w).id

InEdges(g, id) == SelectSeq(g.edges, LAMBDA e : e.t = id)

OutEdges(g, id) == SelectSeq(g.edges, LAMBDA e : e.s = id)

\* one entry for each edge, as retworkx lists them
PredecessorIndices(g, id) == [k \in DOMAIN InEdges(g, id) |-> InEdges(g, id)[k].s]

SuccessorIndices(g, id) == [k \in DOMAIN OutEdges(g, id) |-> OutEdges(g, id)[k].t]

AddEdges(g, es) == [g EXCEPT !.edges = @ \o es]

\* remove_edge(s, t): one edge from s to t
RemoveEdge(g, s, t) ==
    LET hits == {i \in DOMAIN g.edges : g.edges[i].s = s /\ g.edges[i].t = t}
        k == CHOOSE i \in hits : \A j \in hits : i <= j
    IN [g EXCEPT !.edges = SubSeq(@, 1, k - 1) \o SubSeq(@, k + 1, Len(@))]

\* remove_node: the node and every edge at it
RemoveNode(g, id) ==
    [g EXCEPT !.nodes = {n \in @ : n.id # id},
              !.edges = SelectSeq(@, LAMBDA e : e.s # id /\ e.t # id)]

\* _add_op_node: a node with no edge; its index is g.nid
AddOpNode(g, op) == [g EXCEPT !.nodes = @ \cup {OpNode(g.nid, op)}, !.nid = @ + 1]

\* add_qubits / add_clbits / add_creg: an input and an output node, joined
AddWire(g, w) ==
    [nodes |-> g.nodes \cup {WireNode(g.nid, "in", w), WireNode(g.nid + 1, "out", w)},
     edges |-> Append(g.edges, Edge(g.nid, g.nid + 1, w)),
     nid   |-> g.nid + 2]

RECURSIVE AddWires(_, _)
AddWires(g, ws) == IF ws = <<>> THEN g ELSE AddWires(AddWire(g, Head(ws)), Tail(ws))

RECURSIVE AddMultiGraphEdges(_, _, _)
AddMultiGraphEdges(g, id, ws) ==
    IF ws = <<>> THEN g
    ELSE LET w   == Head(ws)
             out == OutputNodeId(g, w)
             p   == PredecessorIndices(g, out)[1]
             g1  == RemoveEdge(g, p, out)
         IN AddMultiGraphEdges(AddEdges(g1, <<Edge(p, id, w), Edge(id, out, w)>>), id, Tail(ws))

\* apply_operation_back: the new node goes between each wire's last node and
\* the wire's output node
ApplyOperationBack(g, op) ==
    AddMultiGraphEdges(AddOpNode(g, op), g.nid, op.qargs \o op.cargs)

RECURSIVE ApplyAll(_, _)
ApplyAll(g, ops) == IF ops = <<>> THEN g ELSE ApplyAll(ApplyOperationBack(g, Head(ops)), Tail(ops))

\* An operation of a replacement dag acts on positions of the replaced
\* node's wires (qargs first, then cargs): the wire map of the substitution.
MapOp(n, bop) ==
    LET nw == n.qargs \o n.cargs
        qp == SelectSeq(bop.pos, LAMBDA k : k <= Len(n.qargs))
        cp == SelectSeq(bop.pos, LAMBDA k : k > Len(n.qargs))
    IN [name |-> bop.name, qargs |-> [k \in DOMAIN qp |-> nw[qp[k]]],
        cargs |-> [k \in DOMAIN cp |-> nw[cp[k]]], blocks |-> bop.blocks,
        params |-> bop.params]

RECURSIVE SubstituteOps(_, _, _, _)
SubstituteOps(g, n, in_ops, pred) ==
    IF in_ops = <<>> THEN [g |-> g, pred |-> pred]
    ELSE LET op == MapOp(n, Head(in_ops))
             ws == op.qargs \o op.cargs
             g1 == AddEdges(AddOpNode(g, op), [k \in DOMAIN ws |-> Edge(pred[ws[k]], g.nid, ws[k])])
         IN SubstituteOps(g1, n, Tail(in_ops),
                          [w \in DOMAIN pred |-> IF w \in Range(ws) THEN g.nid ELSE pred[w]])

\* substitute_node_with_dag: the operations of the replacement dag, in
\* topological order, are threaded between the node's predecessor and its
\* successor on every wire; a wire the replacement leaves idle is joined
\* straight through.
SubstituteNodeWithDag(g, id, in_ops) ==
    LET n    == NodeById(g, id)
        nw   == n.qargs \o n.cargs
        ie   == InEdges(g, id)
        oe   == OutEdges(g, id)
        pred == [w \in Range(nw) |->
                   LET h == SelectSeq(ie, LAMBDA e : e.w = w) IN h[Len(h)].s]
        succ == [w \in Range(nw) |->
                   LET h == SelectSeq(oe, LAMBDA e : e.w = w) IN h[Len(h)].t]
        r    == SubstituteOps(RemoveNode(g, id), n, in_ops, pred)
    IN AddEdges(r.g, [k \in DOMAIN nw |-> Edge(r.pred[nw[k]], succ[nw[k]], nw[k])])

\* the nodes no edge of es enters, peeled off until none is left: the graph
\* has a directed cycle iff some node is never peeled
RECURSIVE Peel(_, _)
Peel(ids, es) ==
    LET free == {i \in ids : \A k \in DOMAIN es : es[k].t = i => es[k].s \notin ids}
    IN IF free = {} THEN ids ELSE Peel(ids \ free, es)

Acyclic(g) == Peel({n.id : n \in g.nodes}, g.edges) = {}

\* the edges of wire w form one simple path from its input to its output node
RECURSIVE PathLen(_, _, _, _)
PathLen(es, from, to, fuel) ==
    IF from = to \/ fuel = 0 THEN 0
    ELSE LET nx == {k \in DOMAIN es : es[k].s = from}
         IN IF nx = {} THEN 0
            ELSE 1 + PathLen(es, es[CHOOSE k \in nx : TRUE].t, to, fuel - 1)

WireContinuous(g, w) ==
    LET es   == SelectSeq(g.edges, LAMBDA e : e.w = w)
        ins(i)  == Cardinality({k \in DOMAIN es : es[k].t = i})
        outs(i) == Cardinality({k \in DOMAIN es : es[k].s = i})
    IN /\ \A n \in g.nodes :
            CASE n.type = "in" /\ n.wire = w  -> ins(n.id) = 0 /\ outs(n.id) = 1
              [] n.type = "out" /\ n.wire = w -> ins(n.id) = 1 /\ outs(n.id) = 0
              [] OTHER -> ins(n.id) = outs(n.id) /\ outs(n.id) <= 1
       /\ PathLen(es, InputNodeId(g, w), OutputNodeId(g, w), Len(es)) = Len(es)

WiresOf(g) == {n.wire : n \in {m \in g.nodes : m.type = "in"}}

WireContinuity(g) == \A w \in WiresOf(g) : WireContinuous(g, w)

----------------------------------------------------------------------------
(* ExpandControlFlow.run *)

\* the wires of the circuits given to ExpandControlFlow
NumExpandQubits == 2
NumExpandClbits == 1
\* the most blocks of one compound operation
MaxBlocks == 2

QWire(i) == <<"q", i>>
CWire(i) == <<"c", i>>
CondWire(k) == <<"cond", k>>

ExpandWires ==
    [i \in 1..NumExpandQubits |-> QWire(i)] \o [i \in 1..NumExpandClbits |-> CWire(i)]

\* isinstance(op, ControlFlowOp): IfElseOp, WhileLoopOp, ForLoopOp, CaseOp
ControlFlowNames == {"ifelse", "while_loop", "for_loop", "case"}
IsControlFlowOp(name) == name \in ControlFlowNames

\* isinstance(op, (ForLoopOp, WhileLoopOp))
IsLoop(name) == name \in {"for_loop", "while_loop"}

\* 'enter_' + node.op.name and 'exit_' + node.op.name
EnterName(name) ==
    CASE name = "ifelse" -> "enter_ifelse" [] name = "while_loop" -> "enter_while_loop"
      [] name = "for_loop" -> "enter_for_loop" [] name = "case" -> "enter_case"

ExitName(name) ==
    CASE name = "ifelse" -> "exit_ifelse" [] name = "while_loop" -> "exit_while_loop"
      [] name = "for_loop" -> "exit_for_loop" [] name = "case" -> "exit_case"

\* the operations a block may hold: a gate on one position, or a compound
\* operation (an if with one empty block) over all positions
Gate(k) == [name |-> "x", pos |-> <<k>>, blocks |-> <<>>, params |-> <<>>]
Nested(width) ==
    [name |-> "ifelse", pos |-> [k \in 1..width |-> k], blocks |-> << <<>> >>, params |-> <<>>]

BlockMenu(width) == {<<>>, <<Gate(1)>>, <<Gate(width)>>, <<Nested(width)>>}

SeqsUpTo(S, lo, hi) == UNION {[1..n -> S] : n \in lo..hi}

\* _blocks as the constructors of if_else.py, while_loop.py, for_loop.py and
\* case.py fill it
BlocksOf(name, width) ==
    CASE name = "ifelse" -> SeqsUpTo(BlockMenu(width), 1, MaxBlocks)
      [] IsLoop(name)    -> SeqsUpTo(BlockMenu(width), 1, 1)
      [] name = "case"   -> SeqsUpTo(BlockMenu(width), 0, MaxBlocks)

CompoundOps ==
    {[name |-> nm, qargs |-> qa, cargs |-> ca, blocks |-> bl, params |-> <<>>] :
        nm \in ControlFlowNames,
        qa \in {[i \in 1..n |-> QWire(i)] : n \in 1..NumExpandQubits},
        ca \in {[i \in 1..n |-> CWire(i)] : n \in 0..NumExpandClbits},
        bl \in SeqsUpTo(UNION {BlockMenu(w) : w \in 1..(NumExpandQubits + NumExpandClbits)},
                         0, MaxBlocks)}

WellFormed(op) == op.blocks \in BlocksOf(op.name, Len(op.qargs) + Len(op.cargs))

PlainOps ==
    {[name |-> "x", qargs |-> <<QWire(i)>>, cargs |-> <<>>, blocks |-> <<>>, params |-> <<>>] :
        i \in 1..NumExpandQubits}
    \cup {[name |-> "measure", qargs |-> <<QWire(1)>>, cargs |-> <<CWire(1)>>, blocks |-> <<>>,
            params |-> <<>>]}

\* a second compound operation of the circuit: one block of one gate, on
\* every qubit
SecondOps ==
    {op \in CompoundOps :
        /\ Len(op.qargs) = NumExpandQubits
        /\ op.blocks = <<<<Gate(1)>>>>}

ExpandCircuits ==
    LET C == {op \in CompoundOps : WellFormed(op)}
    IN {<<c>> : c \in C}
       \cup {<<g, c>> : g \in PlainOps, c \in C}
       \cup {<<c, g>> : c \in C, g \in PlainOps}
       \cup {<<c, d>> : c \in C, d \in SecondOps}

\* circuit_to_dag
CircuitToDag(wires, circ) == ApplyAll(AddWires(NoDag, wires), circ)

\* dag.op_nodes(), a list made before the loop starts
OpNodes(g) == SortSet({n.id : n \in {m \in g.nodes : m.type = "op"}})

NoNode ==
    OpNode(0, [name |-> "none", qargs |-> <<>>, cargs |-> <<>>, blocks |-> <<>>, params |-> <<>>])

\* repl_dag of lines 14-39, its operations in the order they were applied
ScaffoldOps(n) ==
    LET all == [k \in 1..(Len(n.qargs) + Len(n.cargs)) |-> k]
        I(name) == [name |-> name, pos |-> all, blocks |-> <<>>, params |-> <<>>]
    IN <<I(EnterName(n.name))>>
       \o Flatten([b \in DOMAIN n.blocks |-> <<I("ph_enter"), I("ph"), I("ph_exit")>>])
       \o <<I(ExitName(n.name))>>

\* lines 46-47: the placeholders, in topological order (they lie on one chain
\* and were added along it)
PhNodeIds(g) == SortSet({n.id : n \in {m \in g.nodes : m.name = "ph"}})

\* lines 64-77 for one block with the removal of its enter marker left out
RewireKeepEnter(g, entry, exit, b) ==
    LET oe == OutEdges(g, b.enter)
        g1 == AddEdges(g, [k \in DOMAIN oe |-> Edge(entry, oe[k].t, oe[k].w)])
        ie == InEdges(g1, b.exit)
        g3 == AddEdges(g1, [k \in DOMAIN ie |-> Edge(ie[k].s, exit, ie[k].w)])
    IN RemoveNode(g3, b.exit)

\* lines 64-77 for one block with the removal of its exit marker left out
RewireKeepExit(g, entry, exit, b) ==
    LET oe == OutEdges(g, b.enter)
        g1 == AddEdges(g, [k \in DOMAIN oe |-> Edge(entry, oe[k].t, oe[k].w)])
        g2 == RemoveNode(g1, b.enter)
        ie == InEdges(g2, b.exit)
    IN AddEdges(g2, [k \in DOMAIN ie |-> Edge(ie[k].s, exit, ie[k].w)])

\* lines 64-77 for one block with the edges into the shared exit left out
RewireNoFanIn(g, entry, exit, b) ==
    LET oe == OutEdges(g, b.enter)
        g1 == AddEdges(g, [k \in DOMAIN oe |-> Edge(entry, oe[k].t, oe[k].w)])
        g2 == RemoveNode(g1, b.enter)
    IN RemoveNode(g2, b.exit)

\* lines 64-77 for one block
Rewire(g, entry, exit, b) ==
    LET oe == OutEdges(g, b.enter)
        g1 == AddEdges(g, [k \in DOMAIN oe |-> Edge(entry, oe[k].t, oe[k].w)])
        g2 == RemoveNode(g1, b.enter)
        ie == InEdges(g2, b.exit)
        g3 == AddEdges(g2, [k \in DOMAIN ie |-> Edge(ie[k].s, exit, ie[k].w)])
    IN RemoveNode(g3, b.exit)

\* lines 82-98: the condition node after the shared exit, its one-bit wire
\* led into the shared enter node
AddCondition(g, n, entry, exit) ==
    LET cid  == g.nid
        g1   == AddOpNode(g, [name |-> "kernel", qargs |-> <<>>, cargs |-> n.cargs,
                              blocks |-> <<>>, params |-> <<>>])
        g2   == AddEdges(g1, [k \in DOMAIN n.cargs |-> Edge(exit, cid, n.cargs[k])])
        bit  == CondWire(1 + Cardinality({w \in WiresOf(g) : w[1] = "cond"}))
        g3   == AddWire(g2, bit)
        g4   == RemoveEdge(g3, InputNodeId(g3, bit), OutputNodeId(g3, bit))
    IN AddEdges(g4, <<Edge(InputNodeId(g3, bit), cid, bit),
                      Edge(cid, entry, bit),
                      Edge(entry, OutputNodeId(g3, bit), bit)>>)

\* lines 10-11 for a node that is no compound operation
ExpandSkip ==
    /\ pass = "expand" /\ pc = "loop"
    /\ loc.wi <= Len(work)
    /\ ~IsControlFlowOp(NodeById(dag, work[loc.wi]).name)
    /\ loc' = [loc EXCEPT !.wi = @ + 1]
    /\ UNCHANGED <<pass, pc, mvars, dag, work, global_phase>>

\* lines 12-41
ExpandScaffold ==
    /\ pass = "expand" /\ pc = "loop"
    /\ loc.wi <= Len(work)
    /\ LET node == NodeById(dag, work[loc.wi])
       IN /\ IsControlFlowOp(node.name)
          /\ dag' = SubstituteNodeWithDag(dag, node.id, ScaffoldOps(node))
          /\ loc' = [loc EXCEPT !.node = node]
    /\ pc' = "find"
    /\ UNCHANGED <<pass, mvars, work, global_phase>>

\* lines 46-51; rx.topological_sort raises on a graph with a cycle, and
\* ph_node_ids[0] on an operation with no block
ExpandFind ==
    /\ pass = "expand" /\ pc = "find"
    /\ LET ids == PhNodeIds(dag)
       IN IF ~Acyclic(dag) \/ ids = <<>>
          THEN pc' = "raised" /\ UNCHANGED loc
          ELSE /\ pc' = "blocks"
               /\ loc' = [loc EXCEPT
                    !.ph_node_ids = ids,
                    !.entry_node_id =
                        PredecessorIndices(dag, PredecessorIndices(dag, ids[1])[1])[1],
                    !.exit_node_id =
                        SuccessorIndices(dag, SuccessorIndices(dag, ids[Len(ids)])[1])[1],
                    !.bi = 1, !.ph_boundaries = <<>>, !.ri = 1]
    /\ UNCHANGED <<pass, mvars, dag, work, global_phase>>

\* lines 56-61 for one block; successor_indices(ph_node_id)[1] raises when
\* the placeholder has one wire only
ExpandBlock ==
    /\ pass = "expand" /\ pc = "blocks"
    /\ LET ph == loc.ph_node_ids[loc.bi]
           su == SuccessorIndices(dag, ph)
       IN IF Len(su) < 2
          THEN pc' = "raised" /\ UNCHANGED <<dag, loc>>
          ELSE /\ dag' = SubstituteNodeWithDag(dag, ph, loc.node.blocks[loc.bi])
               /\ loc' = [loc EXCEPT
                    !.ph_boundaries = Append(@, [enter |-> PredecessorIndices(dag, ph)[1],
                                                 exit  |-> su[2]]),
                    !.bi = @ + 1]
               /\ pc' = IF loc.bi = Len(loc.ph_node_ids) THEN "rewire" ELSE "blocks"
    /\ UNCHANGED <<pass, mvars, work, global_phase>>

\* lines 63-77 for one block
ExpandRewire ==
    /\ pass = "expand" /\ pc = "rewire"
    /\ dag' = Rewire(dag, loc.entry_node_id, loc.exit_node_id, loc.ph_boundaries[loc.ri])
    /\ loc' = [loc EXCEPT !.ri = @ + 1]
    /\ pc' = IF loc.ri = Len(loc.ph_boundaries) THEN "cond" ELSE "rewire"
    /\ UNCHANGED <<pass, mvars, work, global_phase>>

\* lines 80-98
ExpandCondition ==
    /\ pass = "expand" /\ pc = "cond"
    /\ IsLoop(loc.node.name)
    /\ dag' = AddCondition(dag, loc.node, loc.entry_node_id, loc.exit_node_id)
    /\ loc' = [loc EXCEPT !.wi = @ + 1]
    /\ pc' = "loop"
    /\ UNCHANGED <<pass, mvars, work, global_phase>>

\* line 80 for an operation that is no loop
ExpandNoCondition ==
    /\ pass = "expand" /\ pc = "cond"
    /\ ~IsLoop(loc.node.name)
    /\ loc' = [loc EXCEPT !.wi = @ + 1]
    /\ pc' = "loop"
    /\ UNCHANGED <<pass, mvars, dag, work, global_phase>>

\* line 111
ExpandReturn ==
    /\ pass = "expand" /\ pc = "loop"
    /\ loc.wi > Len(work)
    /\ pc' = "done"
    /\ UNCHANGED <<pass, mvars, xvars>>

\* the merger's variables in a run of another pass
MergeIdle ==
    /\ nodes = <<>> /\ dag_duration = 0 /\ events = <<>> /\ ei = 1
    /\ open_delays = <<>> /\ closed_delays = <<>> /\ nops = 0
    /\ visited = {} /\ open_delay_nodes = <<>>
    /\ water_mark = 0 /\ added_delay_ids = {}

InitExpand ==
    \E circ \in ExpandCircuits :
        /\ pass = "expand" /\ pc = "loop"
        /\ MergeIdle /\ out_wires = [q \in Qubits |-> <<>>]
        /\ dag = CircuitToDag(ExpandWires, circ)
        /\ work = OpNodes(dag)
        /\ loc = [circ |-> circ, wi |-> 1, node |-> NoNode, ph_node_ids |-> <<>>,
                  entry_node_id |-> 0, exit_node_id |-> 0, bi |-> 1,
                  ph_boundaries |-> <<>>, ri |-> 1]
        /\ global_phase = 0

NextExpand ==
    \/ ExpandSkip
    \/ ExpandScaffold
    \/ ExpandFind
    \/ ExpandBlock
    \/ ExpandRewire
    \/ ExpandCondition
    \/ ExpandNoCondition
    \/ ExpandReturn

SpecExpand == InitExpand /\ [][NextExpand]_vars

----------------------------------------------------------------------------
(* UnrollLoops.run *)

\* start of a for loop lies in -MaxStart..MaxStart, stop in -MaxStart..MaxStop,
\* its increment in -MaxStep..MaxStep
MaxStart == 2
MaxStop == 6
MaxStep == 3

\* the length of range(start, stop, step) for step # 0, as CPython computes it
RangeLen(start, stop, step) ==
    IF step > 0
    THEN IF start >= stop THEN 0 ELSE ((stop - start - 1) \div step) + 1
    ELSE IF stop >= start THEN 0 ELSE ((start - stop - 1) \div (-step)) + 1

\* range with the last value left out
PyRangeShort(start, stop, step) ==
    [i \in 1..(RangeLen(start, stop, step) - 1) |-> start + (i - 1) * step]

\* Python's range(start, stop, step): its items start + i * step
PyRange(start, stop, step) ==
    [i \in 1..RangeLen(start, stop, step) |-> start + (i - 1) * step]

\* lines 12-18: one instruction for each value, made of the body bound to the
\* value, on every wire of the loop
UnrolledBlock(n) ==
    LET all == [k \in 1..(Len(n.qargs) + Len(n.cargs)) |-> k]
        vs  == PyRange(n.params[1], n.params[2], n.params[3])
    IN [i \in DOMAIN vs |-> [name |-> "body", pos |-> all, blocks |-> n.blocks,
                             params |-> <<vs[i]>>]]

UnrollWires == [i \in 1..NumExpandQubits |-> QWire(i)]

ForLoops ==
    {[name |-> "for_loop", qargs |-> qa, cargs |-> <<>>, blocks |-> <<<<Gate(1)>>>>,
      params |-> <<a, b, c>>] :
        qa \in {[i \in 1..n |-> QWire(i)] : n \in 1..NumExpandQubits},
        a \in -MaxStart..MaxStart, b \in -MaxStart..MaxStop, c \in -MaxStep..MaxStep}

\* the operations UnrollLoops leaves alone
OtherOps ==
    {[name |-> nm, qargs |-> <<QWire(1)>>, cargs |-> <<>>,
      blocks |-> IF nm = "x" THEN <<>> ELSE <<<<Gate(1)>>>>, params |-> <<>>] :
        nm \in {"x", "while_loop"}}

\* a second for loop of the circuit
SecondLoops == {l \in ForLoops : l.params \in {<<0, 2, 1>>, <<0, 0, 1>>} /\ Len(l.qargs) = 1}

UnrollCircuits ==
    {<<l>> : l \in ForLoops}
    \cup {<<g, l>> : g \in OtherOps, l \in ForLoops}
    \cup {<<l, g>> : l \in ForLoops, g \in OtherOps \cup SecondLoops}

\* dag.named_nodes('for_loop')
NamedNodes(g, name) == SortSet({n.id : n \in {m \in g.nodes : m.type = "op" /\ m.name = name}})

\* lines 11-20 for one loop node; range() raises on a zero step
UnrollLoop ==
    /\ pass = "unroll" /\ pc = "loop"
    /\ loc.wi <= Len(work)
    /\ LET n == NodeById(dag, work[loc.wi])
       IN IF n.params[3] = 0
          THEN pc' = "raised" /\ UNCHANGED <<dag, loc>>
          ELSE /\ dag' = SubstituteNodeWithDag(dag, n.id, UnrolledBlock(n))
               /\ loc' = [loc EXCEPT !.wi = @ + 1]
               /\ pc' = pc
    /\ UNCHANGED <<pass, mvars, work, global_phase>>

\* line 25
UnrollReturn ==
    /\ pass = "unroll" /\ pc = "loop"
    /\ loc.wi > Len(work)
    /\ pc' = "done"
    /\ UNCHANGED <<pass, mvars, xvars>>

InitUnroll ==
    \E circ \in UnrollCircuits :
        /\ pass = "unroll" /\ pc = "loop"
        /\ MergeIdle /\ out_wires = [q \in Qubits |-> <<>>]
        /\ dag = CircuitToDag(UnrollWires, circ)
        /\ work = NamedNodes(dag, "for_loop")
        /\ loc = [circ |-> circ, wi |-> 1]
        /\ global_phase = 0

NextUnroll ==
    \/ UnrollLoop
    \/ UnrollReturn

SpecUnroll == InitUnroll /\ [][NextUnroll]_vars

----------------------------------------------------------------------------
(* DynamicalDecouplingMulti.run.  Angles are counted in quarter turns       *)
(* (pi / 2); durations are integers (dt).                                    *)

\* a full turn, in quarter turns
FullTurn == 4

\* the durations of the multi-qubit delays of the circuits
DDDurations == {20, 30, 100}
\* the durations an X gate may have on a qubit
XDurations == {10, 20}
\* pulse_alignment
Alignments == {1, 16}
\* the most operation nodes of a circuit given to the pass
MaxDDNodes == 3

\* _dd_sequence (line 61) and the templates of lines 62-65, the spacings in
\* quarters and the additions in halves as the code multiplies them
DDSequence == <<"x", "rz", "x", "rz">>
SpacingOdd == <<2, 2, 0, 0, 0>>
SpacingEven == <<1, 2, 0, 0, 1>>
AdditionOdd == <<1, 1, 0, 0, 0>>
AdditionEven == <<0, 1, 0, 0, 1>>

\* lines 89-98: X RZ(pi) X RZ(-pi) is minus the identity, whose angle is pi
SequenceGphase == 2

\* _mod_2pi: (angle + pi) % (2 pi) - pi
Mod2Pi(angle) == ((angle + 2) % FullTurn) - 2

\* lines 102-110: the duration of the sequence on a physical qubit; RZ lasts
\* no time
IndexSequenceDuration(xdur, q) == xdur[q] + 0 + xdur[q] + 0

\* _constrained_length of num / den
ConstrainedLength(alignment, num, den) == alignment * (num \div (den * alignment))

\* lines 147-158
Taus(alignment, slack, xx, spacing, addition) ==
    LET slack_prime == slack - xx
        t == [k \in 1..5 |-> ConstrainedLength(alignment, slack_prime * spacing[k], 4)
                             + ConstrainedLength(alignment, xx * addition[k], 2)]
        unused_slack == slack - SeqSum(t)
        middle_index == 3
    IN [t EXCEPT ![middle_index] = @ + unused_slack]

\* rx.graph_greedy_color on the coupling map reduced to the qubits qs (a
\* stretch of the line): nodes by falling degree, each given the least colour
\* none of its coloured neighbours has
RECURSIVE GreedyColor(_, _, _)
GreedyColor(qs, todo, col) ==
    IF todo = <<>> THEN col
    ELSE LET i    == Head(todo)
             used == {col[j] : j \in {k \in DOMAIN col : Distance(qs[k], qs[i]) = 1}}
             c    == CHOOSE x \in 0..Len(qs) : x \notin used /\ \A y \in 0..(x - 1) : y \in used
         IN GreedyColor(qs, Tail(todo), [k \in DOMAIN col \cup {i} |-> IF k = i THEN c ELSE col[k]])

Degree(qs, i) == Cardinality({k \in DOMAIN qs : Distance(qs[k], qs[i]) = 1})

Coloring(qs) ==
    LET order == StableOrder([i \in DOMAIN qs |-> 0 - Degree(qs, i)])
    IN GreedyColor(qs, order, <<>>)

\* lines 160-164 for one qubit: the delays and gates applied, in order; the
\* gate objects are shared and carry the duration set for the last qubit
RECURSIVE EmitSequence(_, _, _, _)
EmitSequence(q, taus, gates, gdur) ==
    IF taus = <<>> /\ gates = <<>> THEN <<>>
    ELSE (IF taus # <<>> /\ Head(taus) > 0
          THEN <<[op |-> 0, qargs |-> <<q>>, dur |-> Head(taus), kind |-> "delay"]>>
          ELSE <<>>)
         \o (IF gates # <<>>
             THEN <<[op |-> 0, qargs |-> <<q>>, kind |-> Head(gates),
                     dur |-> IF Head(gates) = "x" THEN gdur ELSE 0]>>
             ELSE <<>>)
         \o EmitSequence(q, IF taus = <<>> THEN <<>> ELSE Tail(taus),
                         IF gates = <<>> THEN <<>> ELSE Tail(gates), gdur)

\* the qubit the loop of lines 104-110 visits last
LastQubit(xdur) == CHOOSE q \in DOMAIN xdur : \A p \in DOMAIN xdur : p <= q

\* lines 142-164 for the k-th qubit of the delay node nd
InsertOnQubit(nd, k, alignment, xdur) ==
    LET q     == nd.qargs[k]
        xx    == IndexSequenceDuration(xdur, q)
        slack == nd.dur - xx
        taus  == IF Coloring(nd.qargs)[k] = 0
                 THEN Taus(alignment, slack, xx, SpacingOdd, AdditionOdd)
                 ELSE Taus(alignment, slack, xx, SpacingEven, AdditionEven)
    IN EmitSequence(q, taus, DDSequence, xdur[LastQubit(xdur)])

RECURSIVE ApplyAllBack(_, _)
ApplyAllBack(wires, recs) ==
    IF recs = <<>> THEN wires ELSE ApplyAllBack(ApplyBack(wires, Head(recs)), Tail(recs))

\* the predecessors of the i-th node: on each of its qubits the node before
\* it, "in" for the wire's input node
Predecessors(ns, i) ==
    {LET before == {j \in 1..(i - 1) : q \in Range(ns[j].qargs)}
     IN IF before = {} THEN "in" ELSE ns[CHOOSE j \in before : \A h \in before : h <= j].kind
     : q \in Range(ns[i].qargs)}

IsMultiDelay(nd) == nd.kind = "delay" /\ Len(nd.qargs) > 1

\* line 131, skip_threshold as the fraction thr[1] / thr[2]
DoesNotFit(nd, xdur, thr) ==
    \E k \in DOMAIN nd.qargs :
        IndexSequenceDuration(xdur, nd.qargs[k]) * thr[2] >= thr[1] * nd.dur

\* lines 116-118
DDPassThrough ==
    /\ pass = "dd" /\ pc = "loop"
    /\ loc.i <= Len(work)
    /\ ~IsMultiDelay(work[loc.i])
    /\ out_wires' = ApplyBack(out_wires, work[loc.i])
    /\ loc' = [loc EXCEPT !.i = @ + 1]
    /\ UNCHANGED <<pass, pc, nodes, dag_duration, events, ei, open_delays, closed_delays, nops,
                   visited, open_delay_nodes, water_mark, added_delay_ids, dag, work,
                   global_phase>>

\* lines 123-128; next(dag.predecessors(nd)) is one of the predecessors
DDSkipReset ==
    /\ pass = "dd" /\ pc = "loop"
    /\ loc.i <= Len(work)
    /\ IsMultiDelay(work[loc.i])
    /\ loc.skip_reset_qubits
    /\ \E pred \in Predecessors(work, loc.i) : pred \in {"in", "reset"}
    /\ out_wires' = ApplyBack(out_wires, work[loc.i])
    /\ loc' = [loc EXCEPT !.i = @ + 1,
                          !.emitted = Append(@, [node |-> loc.i, how |-> "reset",
                                                 ops |-> <<work[loc.i]>>])]
    /\ UNCHANGED <<pass, pc, nodes, dag_duration, events, ei, open_delays, closed_delays, nops,
                   visited, open_delay_nodes, water_mark, added_delay_ids, dag, work,
                   global_phase>>

\* lines 130-136
DDSkipThreshold ==
    /\ pass = "dd" /\ pc = "loop"
    /\ loc.i <= Len(work)
    /\ LET nd == work[loc.i]
       IN /\ IsMultiDelay(nd)
          /\ ~loc.skip_reset_qubits
               \/ \E pred \in Predecessors(work, loc.i) : pred \notin {"in", "reset"}
          /\ DoesNotFit(nd, loc.xdur, loc.skip_threshold)
          /\ LET plain == [k \in DOMAIN nd.qargs |->
                   [op |-> 0, qargs |-> <<nd.qargs[k]>>, dur |-> nd.dur, kind |-> "delay"]]
             IN /\ out_wires' = ApplyAllBack(out_wires, plain)
                /\ loc' = [loc EXCEPT !.i = @ + 1,
                                      !.emitted = Append(@, [node |-> loc.i,
                                                             how |-> "threshold",
                                                             ops |-> plain])]
    /\ UNCHANGED <<pass, pc, nodes, dag_duration, events, ei, open_delays, closed_delays, nops,
                   visited, open_delay_nodes, water_mark, added_delay_ids, dag, work,
                   global_phase>>

\* lines 138-167; loc.filled lists what was applied for each qubit, and
\* loc.emitted what was applied for each multi-qubit delay and on which branch
DDInsert ==
    /\ pass = "dd" /\ pc = "loop"
    /\ loc.i <= Len(work)
    /\ LET nd  == work[loc.i]
           ins == [k \in DOMAIN nd.qargs |-> InsertOnQubit(nd, k, loc.alignment, loc.xdur)]
       IN /\ IsMultiDelay(nd)
          /\ ~loc.skip_reset_qubits
               \/ \E pred \in Predecessors(work, loc.i) : pred \notin {"in", "reset"}
          /\ ~DoesNotFit(nd, loc.xdur, loc.skip_threshold)
          /\ out_wires' = ApplyAllBack(out_wires, Flatten(ins))
          /\ loc' = [loc EXCEPT !.i = @ + 1,
                                !.filled = @ \o [k \in DOMAIN nd.qargs |->
                                    [node |-> loc.i, q |-> nd.qargs[k], dur |-> nd.dur,
                                     ops |-> ins[k],
                                     odd |-> Coloring(nd.qargs)[k] = 0]],
                                !.emitted = Append(@, [node |-> loc.i, how |-> "insert",
                                                       ops |-> Flatten(ins)])]
    /\ global_phase' = Mod2Pi(global_phase + SequenceGphase)
    /\ UNCHANGED <<pass, pc, nodes, dag_duration, events, ei, open_delays, closed_delays, nops,
                   visited, open_delay_nodes, water_mark, added_delay_ids, dag, work>>

\* line 169
DDReturn ==
    /\ pass = "dd" /\ pc = "loop"
    /\ loc.i > Len(work)
    /\ pc' = "done"
    /\ UNCHANGED <<pass, mvars, xvars>>

\* the operations of the circuits: gates and resets on single qubits, a
\* single-qubit delay, delays on two or three neighbouring qubits
DDOps ==
    {[op |-> 0, qargs |-> <<0>>, dur |-> 10, kind |-> k] : k \in {"x", "reset"}}
    \cup {[op |-> 0, qargs |-> <<1>>, dur |-> 10, kind |-> "x"]}
    \cup {[op |-> 0, qargs |-> <<NumQubits - 1>>, dur |-> 40, kind |-> "delay"]}
    \cup {[op |-> 0, qargs |-> <<0, 1>>, dur |-> d, kind |-> "delay"] : d \in DDDurations}
    \cup {[op |-> 0, qargs |-> [k \in 1..NumQubits |-> k - 1], dur |-> 100, kind |-> "delay"]}

DDCircuits == SeqsUpTo(DDOps, 1, MaxDDNodes)

InitDD ==
    \E circ \in DDCircuits, al \in Alignments, sr \in BOOLEAN, th \in {<<1, 1>>, <<1, 2>>},
       x1 \in XDurations, ph \in {0, 1} :
        /\ pass = "dd" /\ pc = "loop"
        /\ MergeIdle
        /\ out_wires = [q \in Qubits |-> <<>>]
        /\ dag = NoDag
        /\ work = circ
        /\ loc = [i |-> 1, alignment |-> al, skip_reset_qubits |-> sr, skip_threshold |-> th,
                  xdur |-> [q \in Qubits |-> IF q = 1 THEN x1 ELSE 10],
                  phase_in |-> ph, filled |-> <<>>, emitted |-> <<>>]
        /\ global_phase = ph

\* The pass on a line of DDLineQubits qubits: one delay over a stretch of two
\* or more of them, listed in any order, alone or after a gate or a reset on its first
\* qubit.
DDLineQubits == 6

DDLineArgs ==
    {qa \in UNION {Perms(a..b) : a \in 0..(DDLineQubits - 1), b \in 0..(DDLineQubits - 1)} :
        Len(qa) >= 2}

DDLineCircuits ==
    {<<[op |-> 0, qargs |-> qa, dur |-> 100, kind |-> "delay"]>> : qa \in DDLineArgs}
    \cup {<<[op |-> 0, qargs |-> <<qa[1]>>, dur |-> 10, kind |-> k],
            [op |-> 0, qargs |-> qa, dur |-> d, kind |-> "delay"]>> :
              qa \in {a \in DDLineArgs : Len(a) = 2}, k \in {"x", "reset"}, d \in {20, 100}}

InitDDLine ==
    \E circ \in DDLineCircuits, sr \in BOOLEAN :
        /\ pass = "dd" /\ pc = "loop"
        /\ MergeIdle
        /\ out_wires = [q \in 0..(DDLineQubits - 1) |-> <<>>]
        /\ dag = NoDag
        /\ work = circ
        /\ loc = [i |-> 1, alignment |-> 1, skip_reset_qubits |-> sr, skip_threshold |-> <<1, 1>>,
                  xdur |-> [q \in 0..(DDLineQubits - 1) |-> 10],
                  phase_in |-> 0, filled |-> <<>>, emitted |-> <<>>]
        /\ global_phase = 0

NextDD ==
    \/ DDPassThrough
    \/ DDSkipReset
    \/ DDSkipThreshold
    \/ DDInsert
    \/ DDReturn

SpecDD == InitDD /\ [][NextDD]_vars

SpecDDLine == InitDDLine /\ [][NextDD]_vars

----------------------------------------------------------------------------
(* Properties of the graphs the passes return *)

\* The graph apply_operation_back has built from the operations listed on
\* each wire: one node for each application of an operation, the k-th
\* application of an operation being its k-th entry on each of its wires.
Occurrence(wires, q, k) == Cardinality({j \in 1..k : wires[q][j] = wires[q][k]})

EndId(type, q) == <<[op |-> 0, qargs |-> <<q>>, dur |-> 0, kind |-> type], 0>>

WireIds(wires, q) ==
    <<EndId("in", q)>> \o [k \in DOMAIN wires[q] |-> <<wires[q][k], Occurrence(wires, q, k)>>]
    \o <<EndId("out", q)>>

DagOfWires(wires) ==
    [nodes |-> UNION {{WireNode(EndId("in", q), "in", <<"q", q>>),
                       WireNode(EndId("out", q), "out", <<"q", q>>)}
                      \cup {[id |-> WireIds(wires, q)[k + 1], type |-> "op",
                             name |-> wires[q][k].kind, qargs |-> wires[q][k].qargs,
                             cargs |-> <<>>, blocks |-> <<>>, params |-> <<>>, wire |-> <<>>] :
                            k \in DOMAIN wires[q]} : q \in DOMAIN wires},
     edges |-> Flatten([i \in 1..Cardinality(DOMAIN wires) |->
                  LET q == SortSet(DOMAIN wires)[i]
                      ids == WireIds(wires, q)
                  IN [k \in 1..(Len(ids) - 1) |-> Edge(ids[k], ids[k + 1], <<"q", q>>)]]),
     nid |-> 0]

\* the graph the run has returned
ReturnedDag == IF pass \in {"expand", "unroll"} THEN dag ELSE DagOfWires(out_wires)

\* every compound operation of the circuit has one block, and no loop acts
\* on a classical wire
OneBlockNoLoopClbit(circ) ==
    \A k \in DOMAIN circ :
        IsControlFlowOp(circ[k].name) =>
            /\ Len(circ[k].blocks) = 1
            /\ IsLoop(circ[k].name) => circ[k].cargs = <<>>

\* C2 as stated: in the graph each of the four passes returns, the edges of
\* every wire form one simple path from the wire's input node to its output
\* node.
C2_WireContinuity == pc = "done" => WireContinuity(ReturnedDag)

\* C2, amended: the graph returned by UnrollLoops, DynamicalDecouplingMulti or
\* CombineAdjacentDelays has every wire on one simple path from input to
\* output; so has the graph returned by ExpandControlFlow when every compound
\* operation it lowered has exactly one block and no loop it lowered acts on
\* a classical wire.
C2_WireContinuityOneBlock ==
    (pc = "done" /\ (pass = "expand" => OneBlockNoLoopClbit(loc.circ)))
        => WireContinuity(ReturnedDag)

\* ExpandControlFlow has returned a graph in which it lowered a one-block
\* compound operation: the shared enter node is there
C2_Witness ==
    /\ pass = "expand" /\ pc = "done"
    /\ OneBlockNoLoopClbit(loc.circ)
    /\ \E n \in dag.nodes : n.name \in {"enter_ifelse", "enter_while_loop"}

\* C3: the graph ExpandControlFlow returns has no directed cycle, whatever
\* loops it lowered and whatever wires they act on.
C3_Acyclic == (pass = "expand" /\ pc = "done") => Acyclic(dag)

\* C4: the graph ExpandControlFlow returns holds no 'ph', 'ph_enter' or
\* 'ph_exit' node.
C4_NoTransientNode ==
    (pass = "expand" /\ pc = "done")
        => \A n \in dag.nodes : n.name \notin {"ph", "ph_enter", "ph_exit"}

\* ExpandControlFlow has returned after lowering two compound operations, one
\* of them with two blocks
C4_Witness ==
    /\ pass = "expand" /\ pc = "done"
    /\ Len(loc.circ) = 2
    /\ \A k \in DOMAIN loc.circ : IsControlFlowOp(loc.circ[k].name)
    /\ \E k \in DOMAIN loc.circ : Len(loc.circ[k].blocks) = 2

\* C5: the graph ExpandControlFlow returns holds no compound control-flow
\* node, nested ones included.
C5_NoCompoundNode ==
    (pass = "expand" /\ pc = "done") => \A n \in dag.nodes : ~IsControlFlowOp(n.name)

\* C13: when the pass has failed on a compound operation with no block, the
\* graph is as it was before that operation was processed: the compound node
\* is still there, and no enter, exit, placeholder or block-marker node has
\* been added for it.
C13_FailedLoweringIntact ==
    (pass = "expand" /\ pc = "raised" /\ loc.node.blocks = <<>>) =>
        /\ loc.node \in dag.nodes
        /\ \A n \in dag.nodes :
              n.id > loc.node.id =>
                  n.name \notin {EnterName(loc.node.name), ExitName(loc.node.name),
                                 "ph", "ph_enter", "ph_exit"}

\* the node ids of the operations of the k-th block of the compound node n
\* lowered last: the scaffold took the ids from the shared enter node on, the
\* blocks the ids after it, block by block
BlockNodeIds(n, entry, k) ==
    LET base == entry + 3 * Len(n.blocks) + 2
                 + SeqSum([j \in 1..(k - 1) |-> Len(n.blocks[j])])
    IN [i \in DOMAIN n.blocks[k] |-> base + i - 1]

\* the edges the diamond has on the p-th wire of n: for each block one chain
\* from the shared enter node through the block's operations on that wire, in
\* the block's order, to the shared exit node
DiamondEdges(n, entry, exit, p) ==
    LET w == (n.qargs \o n.cargs)[p]
    IN Flatten([k \in DOMAIN n.blocks |->
            LET ids   == BlockNodeIds(n, entry, k)
                on    == SelectSeq([i \in DOMAIN ids |-> i],
                                   LAMBDA i : p \in Range(n.blocks[k][i].pos))
                chain == <<entry>> \o [j \in DOMAIN on |-> ids[on[j]]] \o <<exit>>
            IN [j \in 1..(Len(chain) - 1) |-> Edge(chain[j], chain[j + 1], w)]])

\* the edges of the graph on the p-th wire of n that leave the shared enter
\* node or an operation of a block, or reach the shared exit node or an
\* operation of a block
LoweredEdges(g, n, entry, exit, p) ==
    LET w     == (n.qargs \o n.cargs)[p]
        inner == UNION {Range(BlockNodeIds(n, entry, k)) : k \in DOMAIN n.blocks}
    IN SelectSeq(g.edges, LAMBDA e :
           /\ e.w = w
           /\ e.s \in inner \cup {entry} \/ e.t \in inner \cup {exit})

SameBag(a, b) ==
    /\ Len(a) = Len(b)
    /\ \A x \in Range(a) \cup Range(b) :
          Cardinality({i \in DOMAIN a : a[i] = x}) = Cardinality({i \in DOMAIN b : b[i] = x})

\* the compound node n was lowered last and its lowering went through
Lowered ==
    pass = "expand" /\ pc \in {"cond", "loop", "done"} /\ loc.node # NoNode

\* C20: after a compound node with N >= 1 blocks is lowered, on every wire of
\* the node the shared enter node has one outgoing edge for each block, to
\* the block's first operation on the wire or to the shared exit node when
\* the block has none; the shared exit node has one incoming edge for each
\* block; the operations of a block are chained in the block's order and no
\* edge joins operations of two blocks.
C20_Diamond ==
    Lowered =>
        /\ NodeById(dag, loc.entry_node_id).name = EnterName(loc.node.name)
        /\ NodeById(dag, loc.exit_node_id).name = ExitName(loc.node.name)
        /\ \A p \in 1..(Len(loc.node.qargs) + Len(loc.node.cargs)) :
              SameBag(LoweredEdges(dag, loc.node, loc.entry_node_id, loc.exit_node_id, p),
                      DiamondEdges(loc.node, loc.entry_node_id, loc.exit_node_id, p))

\* a compound node with two blocks was lowered, one block with an operation
\* on the first wire and one without
C20_Witness ==
    /\ Lowered /\ pc = "done"
    /\ Len(loc.node.blocks) = 2
    /\ loc.node.blocks[1] # <<>> /\ loc.node.blocks[2] = <<>>
    /\ Len(OutEdges(dag, loc.entry_node_id)) = 2 * (Len(loc.node.qargs) + Len(loc.node.cargs))

\* the progression start, start + step, ... strictly before stop
RECURSIVE Progression(_, _, _)
Progression(start, stop, step) ==
    IF (step > 0 /\ start < stop) \/ (step < 0 /\ start > stop)
    THEN <<start>> \o Progression(start + step, stop, step)
    ELSE <<>>

\* the operation nodes along wire w, from the wire's input node on
RECURSIVE WirePath(_, _, _, _)
WirePath(g, w, from, fuel) ==
    LET nx == {k \in DOMAIN g.edges : g.edges[k].s = from /\ g.edges[k].w = w}
    IN IF nx = {} \/ fuel = 0 THEN <<>>
       ELSE LET n == NodeById(g, g.edges[CHOOSE k \in nx : TRUE].t)
            IN IF n.type = "out" THEN <<>>
               ELSE <<[name |-> n.name, qargs |-> n.qargs, cargs |-> n.cargs,
                       blocks |-> n.blocks, params |-> n.params]>>
                    \o WirePath(g, w, n.id, fuel - 1)

\* what the claim expects on wire w: each for loop replaced by one copy of
\* its body for each value of the progression, in order
ExpectedPath(circ, w) ==
    Flatten([k \in DOMAIN circ |->
        IF w \notin Range(circ[k].qargs \o circ[k].cargs) THEN <<>>
        ELSE IF circ[k].name # "for_loop" THEN <<circ[k]>>
        ELSE LET vs == Progression(circ[k].params[1], circ[k].params[2], circ[k].params[3])
             IN [i \in DOMAIN vs |-> [name |-> "body", qargs |-> circ[k].qargs,
                                      cargs |-> circ[k].cargs, blocks |-> circ[k].blocks,
                                      params |-> <<vs[i]>>]]])

\* C6: when UnrollLoops has returned, every wire carries, in place of each for
\* loop, one copy of the body for each value of start, start + step, ...
\* strictly before stop, in that order, each copy one node on all wires of the
\* loop; no for loop is left; range(0, 6, 2) is 0, 2, 4.
C6_Unrolled ==
    (pass = "unroll" /\ pc = "done") =>
         /\ PyRange(0, 6, 2) = <<0, 2, 4>>
         /\ \A w \in Range(UnrollWires) :
               WirePath(dag, w, InputNodeId(dag, w), Len(dag.edges)) = ExpectedPath(loc.circ, w)
         /\ \A n \in dag.nodes : n.name # "for_loop"
         /\ Cardinality({n \in dag.nodes : n.name = "body"})
              = SeqSum([k \in DOMAIN loc.circ |->
                          IF loc.circ[k].name = "for_loop"
                          THEN Len(Progression(loc.circ[k].params[1], loc.circ[k].params[2],
                                               loc.circ[k].params[3]))
                          ELSE 0])

\* UnrollLoops has returned after unrolling range(0, 6, 2) and an empty range
C6_Witness ==
    /\ pass = "unroll" /\ pc = "done"
    /\ Len(loc.circ) = 2
    /\ loc.circ[1].name = "for_loop" /\ loc.circ[1].params = <<0, 6, 2>>
    /\ loc.circ[2].name = "for_loop" /\ loc.circ[2].params = <<0, 0, 1>>
    /\ {n.params : n \in {m \in dag.nodes : m.name = "body"}} = {<<0>>, <<2>>, <<4>>}

\* the delays applied for one qubit of a filled window
EmittedDelay(ops) ==
    SeqSum([k \in DOMAIN ops |-> IF ops[k].kind = "delay" THEN ops[k].dur ELSE 0])

\* C7: for every qubit of every delay the sequence was inserted into, the
\* delays applied on that qubit and one instance of the sequence on that
\* qubit last exactly as long as the delay did.
C7_WindowFilled ==
    pass = "dd" =>
        \A k \in DOMAIN loc.filled :
            EmittedDelay(loc.filled[k].ops) + IndexSequenceDuration(loc.xdur, loc.filled[k].q)
                = loc.filled[k].dur

\* an angle brought into (-pi, pi]
WrapHalfOpen(angle) == LET m == angle % FullTurn IN IF m > 2 THEN m - FullTurn ELSE m

\* C8: when the pass has returned, the global phase is the input's phase plus
\* the sequence's phase once for every instance of the sequence inserted,
\* brought into (-pi, pi].
C8_PhaseClosure ==
    (pass = "dd" /\ pc = "done")
        => global_phase = WrapHalfOpen(loc.phase_in + Len(loc.filled) * SequenceGphase)

\* the sequence lasts no longer than the delay on each of the delay's qubits
SequenceFits(nd, xdur) ==
    \A k \in DOMAIN nd.qargs : IndexSequenceDuration(xdur, nd.qargs[k]) <= nd.dur

\* C11: for every multi-qubit delay with 1 - slack / duration >= skip_threshold
\* on some qubit, what the pass applied is the delay itself: one delay node on
\* the same qubits with the same duration, and no gate of the sequence.
C11_ThresholdSkip ==
    pass = "dd" =>
        \A k \in DOMAIN loc.emitted :
            LET nd == work[loc.emitted[k].node]
            IN DoesNotFit(nd, loc.xdur, loc.skip_threshold) => loc.emitted[k].ops = <<nd>>

\* C12: with skip_reset_qubits, every multi-qubit delay that follows a reset or
\* the input of the circuit on any of its qubits is applied as it is; without
\* skip_reset_qubits no delay is skipped for what precedes it.
C12_SkipAfterReset ==
    pass = "dd" =>
        \A k \in DOMAIN loc.emitted :
            LET i == loc.emitted[k].node
            IN IF loc.skip_reset_qubits
               THEN (\E pred \in Predecessors(work, i) : pred \in {"in", "reset"})
                        => /\ loc.emitted[k].how = "reset"
                           /\ loc.emitted[k].ops = <<work[i]>>
               ELSE loc.emitted[k].how =
                        IF DoesNotFit(work[i], loc.xdur, loc.skip_threshold)
                        THEN "threshold" ELSE "insert"

\* C14: with skip_threshold = 1, the sequence is inserted into every
\* multi-qubit delay that is not skipped for following a reset and lasts at
\* least as long as the sequence on each of its qubits, the delay that lasts
\* exactly as long as the sequence included.
C14_DefaultThresholdInserts ==
    (pass = "dd" /\ loc.skip_threshold = <<1, 1>>) =>
        \A k \in DOMAIN loc.emitted :
            (loc.emitted[k].how # "reset" /\ SequenceFits(work[loc.emitted[k].node], loc.xdur))
                => loc.emitted[k].how = "insert"

\* C21: any two directly coupled qubits of a filled delay get different
\* templates, one the odd and one the even (every set of qubits of a line
\* admits a proper 2-colouring).
C21_CoupledQubitsOffset ==
    pass = "dd" =>
        \A j, k \in DOMAIN loc.filled :
            (/\ loc.filled[j].node = loc.filled[k].node
             /\ Distance(loc.filled[j].q, loc.filled[k].q) = 1)
                => loc.filled[j].odd # loc.filled[k].odd

\* the gates among the operations inserted on a qubit
GatesOf(ops) == SelectSeq(ops, LAMBDA rec : rec.kind # "delay")

\* C29: every decoupling gate inserted on a qubit carries the duration the
\* lookup gives for that gate on that qubit, and the gate durations on the
\* qubit add up to the sequence duration its slack was computed from.
C29_GateDurationsPerQubit ==
    pass = "dd" =>
        \A j \in DOMAIN loc.filled :
            LET f == loc.filled[j]
                g == GatesOf(f.ops)
            IN /\ \A k \in DOMAIN g : g[k].kind = "x" => g[k].dur = loc.xdur[f.q]
               /\ SeqSum([k \in DOMAIN g |-> g[k].dur]) = IndexSequenceDuration(loc.xdur, f.q)

----------------------------------------------------------------------------
(* Properties of CombineAdjacentDelays *)

\* idle time on qubit q in the input dag and in a list of applied operations
DelayTimeIn(ns, q) ==
    SeqSum([k \in 1..Len(ns) |->
              IF ns[k].kind = "delay" /\ ns[k].q = q THEN ns[k].dur ELSE 0])

DelayTimeOut(wires, q) ==
    SeqSum([k \in 1..Len(wires[q]) |->
              IF wires[q][k].kind = "delay" THEN wires[q][k].dur ELSE 0])

\* a closed interval as the claims speak of it: its span and its qubits
IntervalSet(ns, closed) ==
    {[s |-> closed[k].start, e |-> closed[k].end,
      qs |-> {ns[n].q : n \in Range(closed[k].nodes)}] : k \in DOMAIN closed}

C9_PartialOverlap ==
    /\ pc # "raised"
    /\ pc \in {"walk", "done"} =>
         /\ Len(closed_delays) = 3
         /\ IntervalSet(nodes, closed_delays) =
              {[s |-> 50, e |-> 60, qs |-> {0}],
               [s |-> 60, e |-> 350, qs |-> {0, 1}],
               [s |-> 350, e |-> 360, qs |-> {1}]}

\* the sweep of the scenario has processed its four events
C9_Witness ==
    /\ pc = "walk" /\ ei = 5
    /\ \E i, j \in DOMAIN nodes :
         /\ nodes[i] = [q |-> 0, start |-> 50, dur |-> 300, kind |-> "delay", op |-> i]
         /\ nodes[j] = [q |-> 1, start |-> 60, dur |-> 300, kind |-> "delay", op |-> j]
         /\ JoinableIds(nodes, dag_duration) = {i, j}

\* the whole sweep as one function of the event list
RECURSIVE SweepAll(_, _, _)
SweepAll(ns, st, evs) ==
    IF evs = <<>> THEN [closed |-> st.closed, raised |-> FALSE]
    ELSE IF Head(evs).type = "begin"
         THEN SweepAll(ns, BeginEdge(ns, st, Head(evs)), Tail(evs))
         ELSE IF EndEdgeFails(ns, st, Head(evs))
              THEN [closed |-> st.closed, raised |-> TRUE]
              ELSE SweepAll(ns, EndEdge(ns, st, Head(evs)), Tail(evs))

\* a second run on the same nodes, start times and coupling map, whose
\* property set lists the nodes in ascending order
OtherRun ==
    SweepAll(nodes, [open |-> <<>>, closed |-> <<>>, nops |-> Len(nodes)],
             SortedDelayEdges(nodes, SortSet(JoinableIds(nodes, dag_duration))))

SameClosedIntervals ==
    /\ ~OtherRun.raised
    /\ IntervalSet(nodes, closed_delays) = IntervalSet(nodes, OtherRun.closed)

NoBeginEndTie ==
    \A i, j \in DOMAIN events :
        (events[i].type = "begin" /\ events[j].type = "end")
            => events[i].time # events[j].time

\* C10 as stated: two runs on the same nodes, start times and coupling map
\* close the same intervals, whatever events share a timestamp.
C10_Original == pc \in {"walk", "raised"} => (pc = "walk" /\ SameClosedIntervals)

\* C10, amended: the two runs close the same intervals when no begin event
\* shares its timestamp with an end event.
C10_Deterministic ==
    (pc \in {"walk", "raised"} /\ NoBeginEndTie) => (pc = "walk" /\ SameClosedIntervals)

\* a finished sweep in which two events of one timestamp were processed in
\* the order opposite to that of the other run
C10_Witness ==
    /\ pc = "walk" /\ NoBeginEndTie
    /\ \E i \in DOMAIN events :
         i > 1 /\ events[i].time = events[i - 1].time /\ events[i].node < events[i - 1].node

\* open and closed intervals without their operation objects
OpenSpans(s) == [k \in DOMAIN s |-> [start |-> s[k].start, nodes |-> s[k].nodes]]
ClosedSpans(s) ==
    [k \in DOMAIN s |-> [start |-> s[k].start, end |-> s[k].end, nodes |-> s[k].nodes]]

\* d closed at t: recorded unless it was opened at t
ClosedAt(d, t) ==
    IF d.start # t THEN <<[start |-> d.start, end |-> t, nodes |-> d.nodes]>> ELSE <<>>

Without(s, K) == [j \in 1..Len(SelectSeq([i \in DOMAIN s |-> i], LAMBDA i : i \notin K)) |->
                    s[SelectSeq([i \in DOMAIN s |-> i], LAMBDA i : i \notin K)[j]]]

\* the sweep is about to process an event of the given type
AtEvent(type) ==
    pass = "merge" /\ pc = "sweep" /\ ei <= Len(events) /\ events[ei].type = type

\* C15: processing the end event of node N at time t, when exactly one open
\* interval contains N, closes that interval at t and, if it had more than
\* one node, opens a new interval at t over its other nodes, in their order;
\* the other open intervals and the closed ones stay.  With any other number
\* of open intervals containing N the sweep fails and nothing is closed.
C15_EndEvent ==
    [][AtEvent("end") =>
        LET N == events[ei].node
            t == events[ei].time
            holders == {k \in DOMAIN open_delays : N \in Range(open_delays[k].nodes)}
        IN IF Cardinality(holders) = 1
           THEN LET d == open_delays[CHOOSE k \in holders : TRUE]
                    others == SelectSeq(d.nodes, LAMBDA n : n # N)
                IN /\ pc' = "sweep" /\ ei' = ei + 1
                   /\ OpenSpans(open_delays') =
                        OpenSpans(Without(open_delays, holders))
                        \o (IF Len(d.nodes) > 1
                            THEN <<[start |-> t, nodes |-> others]>> ELSE <<>>)
                   /\ ClosedSpans(closed_delays') = ClosedSpans(closed_delays) \o ClosedAt(d, t)
           ELSE pc' = "raised" /\ UNCHANGED <<open_delays, closed_delays>>]_vars

\* an end event has just closed an interval of two or more nodes and opened
\* one over the remaining nodes
C15_Witness ==
    /\ pass = "merge" /\ pc = "sweep" /\ ei > 1 /\ events[ei - 1].type = "end"
    /\ closed_delays # <<>> /\ open_delays # <<>>
    /\ LET c == closed_delays[Len(closed_delays)]
           o == open_delays[Len(open_delays)]
       IN /\ c.end = events[ei - 1].time /\ events[ei - 1].node \in Range(c.nodes)
          /\ Len(c.nodes) > 1
          /\ o.start = c.end
          /\ Range(o.nodes) = Range(c.nodes) \ {events[ei - 1].node}

\* C16: processing the begin event of node N at time t, when no open interval
\* has a node within coupling distance 1 of N's qubit, adds the open interval
\* {N} starting at t and changes nothing else; otherwise each such interval
\* is closed at t (recorded only if it did not start at t) and one interval
\* starting at t is opened over N and the nodes of the intervals just closed;
\* the open intervals farther away stay.
C16_BeginEvent ==
    [][AtEvent("begin") =>
        LET N == events[ei].node
            t == events[ei].time
            near == {k \in DOMAIN open_delays :
                        \E n \in Range(open_delays[k].nodes) :
                            Distance(nodes[n].q, nodes[N].q) <= 1}
            hit == SortSet(near)
        IN /\ pc' = "sweep" /\ ei' = ei + 1
           /\ OpenSpans(open_delays') =
                OpenSpans(Without(open_delays, near))
                \o <<[start |-> t,
                      nodes |-> <<N>> \o Flatten([j \in DOMAIN hit |-> open_delays[hit[j]].nodes])]>>
           /\ ClosedSpans(closed_delays') =
                ClosedSpans(closed_delays)
                \o Flatten([j \in DOMAIN hit |-> ClosedAt(open_delays[hit[j]], t)])]_vars

\* a begin event has just closed two open intervals and opened one over their
\* nodes and its own
C16_Witness ==
    /\ pass = "merge" /\ pc = "sweep" /\ ei > 1 /\ events[ei - 1].type = "begin"
    /\ Len(closed_delays) >= 2 /\ open_delays # <<>>
    /\ LET o  == open_delays[Len(open_delays)]
           c1 == closed_delays[Len(closed_delays) - 1]
           c2 == closed_delays[Len(closed_delays)]
       IN /\ o.start = events[ei - 1].time /\ Head(o.nodes) = events[ei - 1].node
          /\ c1.end = o.start /\ c2.end = o.start
          /\ o.nodes = <<events[ei - 1].node>> \o c1.nodes \o c2.nodes
          /\ Len(open_delays) = 1

\* C17's condition on a node: a delay longer than 200 that does not start at 0
\* and ends before the circuit does
Eligible(nd, total) ==
    nd.kind = "delay" /\ nd.dur > 200 /\ nd.start # 0 /\ nd.start + nd.dur < total

\* how often the operation of node nd was applied on its qubit
TimesApplied(wires, nd) ==
    Cardinality({k \in DOMAIN wires[nd.q] : wires[nd.q][k] = NodeOp(nd)})

\* C17: a node has a begin and an end event (one of each, at its start and
\* at its end) if and only if it is a delay longer than 200 that does not
\* start at 0 and ends before the circuit does; only such nodes are in open
\* or closed intervals, and each of them is in a closed interval once the
\* sweep is over; every other delay is handled as the other operations are:
\* it never joins the pending delays and is applied to the output as it is.
C17_Eligibility ==
    pass = "merge" =>
        /\ \A n \in DOMAIN nodes :
              LET mine == {k \in DOMAIN events : events[k].node = n}
              IN IF Eligible(nodes[n], dag_duration)
                 THEN /\ {[type |-> events[k].type, time |-> events[k].time] : k \in mine}
                           = {[type |-> "begin", time |-> nodes[n].start],
                              [type |-> "end", time |-> nodes[n].start + nodes[n].dur]}
                      /\ Cardinality(mine) = 2
                      /\ pc \in {"walk", "done"}
                           => \E k \in DOMAIN closed_delays : n \in Range(closed_delays[k].nodes)
                 ELSE /\ mine = {}
                      /\ \A k \in DOMAIN closed_delays : n \notin Range(closed_delays[k].nodes)
                      /\ \A k \in DOMAIN open_delays : n \notin Range(open_delays[k].nodes)
                      /\ n \notin Range(open_delay_nodes)
                      /\ TimesApplied(out_wires, nodes[n])
                           = IF n \in visited /\ pc \in {"walk", "done"} THEN 1 ELSE 0

\* the pass has returned on a dag with a joinable delay and a delay of
\* exactly 200 that was applied as it is
C17_Witness ==
    /\ pass = "merge" /\ pc = "done"
    /\ closed_delays # <<>>
    /\ \E n \in DOMAIN nodes :
          /\ nodes[n].kind = "delay" /\ nodes[n].dur = 200
          /\ nodes[n].start # 0 /\ nodes[n].start + nodes[n].dur < dag_duration
          /\ TimesApplied(out_wires, nodes[n]) = 1

\* the joint delay of the closed interval c is on every qubit c records
Emitted(wires, ns, c) ==
    \A k \in DOMAIN c.nodes : JointDelay(ns, c) \in Range(wires[ns[c.nodes[k]].q])

\* C18: when the pass has returned, the joint delay of every closed interval
\* is in the output graph, on the qubits the interval records.
C18_EveryClosedEmitted ==
    (pass = "merge" /\ pc = "done")
        => \A k \in DOMAIN closed_delays : Emitted(out_wires, nodes, closed_delays[k])

\* C19: no operation is applied twice: on every wire of the output graph
\* each joint delay of a closed interval and each operation of an original
\* node occurs at most once.
C19_NothingTwice ==
    pass = "merge" =>
        \A q \in DOMAIN out_wires :
            \A j, k \in DOMAIN out_wires[q] : j # k => out_wires[q][j].op # out_wires[q][k].op

\* the pass has returned, the joint delay of an interval listed under two
\* delay nodes is in the output, and both nodes were pending while two gates
\* that start after the interval were reached
C19_Witness ==
    /\ pass = "merge" /\ pc = "done"
    /\ Len(open_delay_nodes) = 2
    /\ \E k \in DOMAIN closed_delays :
          /\ Len(closed_delays[k].nodes) = 2
          /\ Emitted(out_wires, nodes, closed_delays[k])
          /\ Cardinality({n \in DOMAIN nodes : /\ nodes[n].kind = "gate"
                                               /\ nodes[n].start >= closed_delays[k].end}) = 2

\* C22: at a step of the walk where a delay and a non-delay are both ready,
\* the node visited is the non-delay.
C22_NonDelayFirst ==
    [][(/\ pass = "merge" /\ pc = "walk" /\ visited' # visited
        /\ \E i, j \in Ready(nodes, visited) :
               nodes[i].kind = "delay" /\ nodes[j].kind # "delay")
       => \A n \in visited' \ visited : nodes[n].kind # "delay"]_vars

\* the positions of the operation rec on a wire
PositionsOf(wire, rec) == {p \in DOMAIN wire : wire[p] = rec}

\* C23: on every qubit of a closed interval [s, e) its joint delay stands
\* after every operation of that qubit scheduled to start before s and
\* before every operation of that qubit scheduled to start at or after e.
C23_JointDelayInPlace ==
    pass = "merge" =>
        \A k \in DOMAIN closed_delays : \A m \in DOMAIN closed_delays[k].nodes :
            LET c == closed_delays[k]
                q == nodes[c.nodes[m]].q
            IN \A p \in PositionsOf(out_wires[q], JointDelay(nodes, c)) :
                \A n \in DOMAIN nodes \ JoinableIds(nodes, dag_duration) :
                    nodes[n].q = q =>
                        \A r \in PositionsOf(out_wires[q], NodeOp(nodes[n])) :
                            /\ nodes[n].start < c.start => r < p
                            /\ nodes[n].start >= c.end => p < r

\* the sweep has processed every event
SweepOver == pass = "merge" /\ pc \in {"sweep", "walk", "done"} /\ ei > Len(events)

\* the closed intervals that list node N
ClosedListing(N) == {k \in DOMAIN closed_delays : N \in Range(closed_delays[k].nodes)}

SetSum(S, f(_)) ==
    LET RECURSIVE Sum(_)
        Sum(T) == IF T = {} THEN 0
                  ELSE LET x == CHOOSE y \in T : TRUE IN f(x) + Sum(T \ {x})
    IN Sum(S)

\* C24: after the sweep, the closed intervals that list a joinable delay N
\* do not overlap one another and together cover exactly
\* [start(N), start(N) + duration(N)).
C24_ClosedTileNode ==
    SweepOver =>
        \A N \in JoinableIds(nodes, dag_duration) :
            LET cs == ClosedListing(N)
                Length(k) == closed_delays[k].end - closed_delays[k].start
            IN /\ \A j, k \in cs : j # k =>
                      \/ closed_delays[j].end <= closed_delays[k].start
                      \/ closed_delays[k].end <= closed_delays[j].start
               /\ \A k \in cs : /\ nodes[N].start <= closed_delays[k].start
                                 /\ closed_delays[k].start < closed_delays[k].end
                                 /\ closed_delays[k].end <= nodes[N].start + nodes[N].dur
               /\ SetSum(cs, Length) = nodes[N].dur

\* the sweep is over and some joinable delay is listed by three closed
\* intervals, which its neighbours' begin and end events cut
C24_Witness ==
    /\ SweepOver
    /\ \E N \in JoinableIds(nodes, dag_duration) : Cardinality(ClosedListing(N)) >= 3

\* the joinable delays whose begin event has been processed and whose end
\* event has not
Begun ==
    {N \in DOMAIN nodes :
        /\ \E k \in 1..(ei - 1) : events[k].node = N /\ events[k].type = "begin"
        /\ ~\E k \in 1..(ei - 1) : events[k].node = N /\ events[k].type = "end"}

\* C25: after each event of the sweep no node is listed twice in the open
\* intervals, the nodes listed are exactly the joinable delays begun and not
\* ended, and after the last event no interval is open.
C25_OpenPartition ==
    (pass = "merge" /\ pc \in {"sweep", "walk", "done"}) =>
        /\ \A j, k \in DOMAIN open_delays :
              j # k => Range(open_delays[j].nodes) \cap Range(open_delays[k].nodes) = {}
        /\ \A k \in DOMAIN open_delays :
              Cardinality(Range(open_delays[k].nodes)) = Len(open_delays[k].nodes)
        /\ UNION {Range(open_delays[k].nodes) : k \in DOMAIN open_delays} = Begun
        /\ ei > Len(events) => open_delays = <<>>

\* an end event has just been processed and two intervals are open at once
C25_Witness ==
    /\ pass = "merge" /\ pc = "sweep" /\ ei > 1 /\ events[ei - 1].type = "end"
    /\ Len(open_delays) >= 2
    /\ Cardinality(Begun) >= 2

\* C26: with delays that do not overlap on a qubit, after each event two
\* nodes listed in different open intervals are on qubits farther than
\* coupling distance 1 apart; at the end event of N the open intervals within
\* distance 1 of N are the one interval that lists N, and the sweep never
\* fails.
C26_OpenIntervalsApart ==
    pass = "merge" =>
        /\ pc # "raised"
        /\ \A j, k \in DOMAIN open_delays : j # k =>
              \A a \in Range(open_delays[j].nodes), b \in Range(open_delays[k].nodes) :
                  Distance(nodes[a].q, nodes[b].q) > 1
        /\ AtEvent("end") =>
              LET N == events[ei].node
                  near == {k \in DOMAIN open_delays :
                              \E n \in Range(open_delays[k].nodes) :
                                  Distance(nodes[n].q, nodes[N].q) <= 1}
              IN /\ near = {k \in DOMAIN open_delays : N \in Range(open_delays[k].nodes)}
                 /\ Cardinality(near) = 1

\* the end event of a delay is about to be processed while two intervals
\* are open
C26_Witness ==
    /\ AtEvent("end")
    /\ Len(open_delays) >= 2

\* C27: the qubits of a closed interval that spans more than one qubit are
\* connected: each is at coupling distance 1 from another qubit of the
\* interval.
C27_ClosedConnected ==
    pass = "merge" =>
        \A k \in DOMAIN closed_delays :
            LET qs == {nodes[n].q : n \in Range(closed_delays[k].nodes)}
            IN Cardinality(qs) > 1 =>
                 \A q \in qs : \E r \in qs : Distance(q, r) = 1

\* the operations of the nodes of qubit q that are not joinable delays, in
\* the order of the wire
KeptOps(q) ==
    LET ids == SelectSeq([i \in DOMAIN nodes |-> i], LAMBDA i :
                   nodes[i].q = q /\ i \notin JoinableIds(nodes, dag_duration))
    IN [k \in DOMAIN ids |-> NodeOp(nodes[ids[k]])]

\* C28: when the pass has returned, the operations of the nodes that are not
\* joinable delays stand on every wire of the output once per node, with
\* their qubits, in the order of the input, also when two nodes carry the
\* same operation object.
C28_OthersKept ==
    (pass = "merge" /\ pc = "done") =>
        \A q \in DOMAIN out_wires :
            SelectSeq(out_wires[q], LAMBDA rec : rec \in Range(KeptOps(q))) = KeptOps(q)

\* C30: every closed interval has start < end, a delay operation of duration
\* end - start and of as many qubits as the interval lists nodes, nodes on
\* pairwise distinct qubits, and a span inside the span of each of its nodes.
C30_ClosedWellFormed ==
    pass = "merge" =>
        \A k \in DOMAIN closed_delays :
            LET c == closed_delays[k]
            IN /\ c.start < c.end
               /\ c.duration = c.end - c.start
               /\ c.num_qubits = Len(c.nodes)
               /\ \A i, j \in DOMAIN c.nodes :
                     i # j => nodes[c.nodes[i]].q # nodes[c.nodes[j]].q
               /\ \A i \in DOMAIN c.nodes :
                     /\ nodes[c.nodes[i]].start <= c.start
                     /\ c.end <= nodes[c.nodes[i]].start + nodes[c.nodes[i]].dur

\* the sweep is over, a closed interval lists two or more nodes, and on some
\* qubit a delay began at the instant the one before it ended, its begin
\* event coming first
C30_Witness ==
    /\ SweepOver
    /\ \E k \in DOMAIN closed_delays : Len(closed_delays[k].nodes) >= 2
    /\ \E i, j \in DOMAIN events :
          /\ i < j
          /\ events[i].type = "begin" /\ events[j].type = "end"
          /\ events[i].time = events[j].time
          /\ nodes[events[i].node].q = nodes[events[j].node].q

----------------------------------------------------------------------------
(* One run of one of the four passes *)

Init == InitExpand \/ InitUnroll \/ InitDD \/ InitScenario

Next == NextExpand \/ NextUnroll \/ NextDD \/ NextMerge

Spec == Init /\ [][Next]_vars

====
